---- MODULE Spec2Model ----
(***************************************************************************)
(* Element normalisation of x-banana-slides:                               *)
(*   backend/services/segmentation/result_processor.py  (ResultProcessor)  *)
(*   backend/services/element_segmentation_service.py   (the service's own *)
(*                                                        validation)      *)
(*                                                                         *)
(* Numbers.  Python floats are modelled on a fixed-point grid: the integer *)
(* n stands for n/Scale pixels, so that sub-pixel values exist.  Areas are *)
(* products of two grid numbers and therefore live on the Scale*Scale      *)
(* grid.  A JSON value is a record [k, v]: k = "num" (a number), "str" (a  *)
(* string holding the decimal text of a number), "txt" (any other string), *)
(* "null", or "nan" (the float NaN, which json.loads accepts).             *)
(***************************************************************************)
EXTENDS Integers, Sequences, FiniteSets, TLC

\* ------------------------------------------------------------- bounds
Scale == 2
MaxElems == 3
MaxClamps == 2
MaxTexts == 2
MaxImages == 2
MaxParts == 3

\* ---------------------------------------------------------- constants
min_text_area == 100
min_icon_area == 200
min_chart_area == 500

\* ExportService: EMU per inch, the slide width in inches, points per
\* inch, the font size of a text element that names none.
EMU_PER_INCH == 914400
SlideWidthInches == 10
PointsPerInch == 72
DefaultFontSize == 18

\* _parse_json_response: the length of the preview in its error message.
PreviewLength == 200

px(n) == n * Scale
px2(n) == n * Scale * Scale

\* ------------------------------------------------------- JSON values
Num(n) == [k |-> "num", v |-> n]
Str(n) == [k |-> "str", v |-> n]
NaN == [k |-> "nan", v |-> 0]
Txt == [k |-> "txt", v |-> 0]
Null == [k |-> "null", v |-> 0]
ValueError == [k |-> "ValueError", v |-> 0]
TypeError == [k |-> "TypeError", v |-> 0]

\* A bbox field: a JSON list, a JSON string ("string", its items are its
\* characters, each a string of one character), a JSON object ("dict", its
\* items are the values of its keys), null, or no "bbox" key at all
\* ("absent").
List(items) == [t |-> "list", items |-> items]
Chars(items) == [t |-> "string", items |-> items]
Dict(items) == [t |-> "dict", items |-> items]
NullBBox == [t |-> "null", items |-> <<>>]
Absent == [t |-> "absent", items |-> <<>>]

\* Python's float(v): a number stays, a numeric string is parsed, any other
\* string raises ValueError, None raises TypeError.
PyFloat(val) ==
    CASE val.k \in {"num", "str"} -> Num(val.v)
      [] val.k = "nan" -> NaN
      [] val.k = "txt" -> ValueError
      [] OTHER -> TypeError

IsFloat(f) == f.k \in {"num", "nan"}

\* IEEE comparisons: every comparison with NaN is false.
Lt(a, b) == a.k = "num" /\ b.k = "num" /\ a.v < b.v
Le(a, b) == a.k = "num" /\ b.k = "num" /\ a.v <= b.v
Gt(a, b) == a.k = "num" /\ b.k = "num" /\ a.v > b.v
Add(a, b) == IF a.k = "num" /\ b.k = "num" THEN Num(a.v + b.v) ELSE NaN
Sub(a, b) == IF a.k = "num" /\ b.k = "num" THEN Num(a.v - b.v) ELSE NaN

\* Python's min(a, b) and max(a, b): the first argument unless the second
\* compares strictly smaller (larger).
PyMin(a, b) == IF Lt(b, a) THEN b ELSE a
PyMax(a, b) == IF Gt(b, a) THEN b ELSE a

\* dict.get('bbox', default)
GetBBox(elem, default) == IF elem.bbox.t = "absent" THEN default ELSE elem.bbox

\* dict.get(key, default) for the other keys: a key the JSON object does not
\* have is a field the record does not have.
Get(d, key, default) == IF key \in DOMAIN d THEN d[key] ELSE default

\* The values of the other fields: a string (its characters), a JSON
\* object (its keys), JSON null, a number.
PyStr(chars) == [ty |-> "str", s |-> chars]
PyDict(keys) == [ty |-> "dict", s |-> keys]
PyInt(n) == [ty |-> "int", s |-> <<n>>]
None == [ty |-> "None", s |-> <<>>]

\* ------------------------------------- ResultProcessor, one bounding box

\* The bounds check shared by the variants of _is_valid_bbox below: lo is
\* the smallest x and y accepted, (hi_x, hi_y) the largest right and bottom
\* edge accepted, all on the grid.
BBoxVerdict(bbox, lo, hi_x, hi_y) ==
    IF bbox.t = "null" \/ Len(bbox.items) = 0 \/ Len(bbox.items) # 4 THEN "False"
    ELSE IF bbox.t = "dict" THEN "KeyError"
    ELSE IF \E i \in 1..4 : ~IsFloat(PyFloat(bbox.items[i])) THEN "False"
    ELSE LET x == PyFloat(bbox.items[1])
             y == PyFloat(bbox.items[2])
             width == PyFloat(bbox.items[3])
             height == PyFloat(bbox.items[4])
         IN  IF Le(width, Num(0)) \/ Le(height, Num(0)) THEN "False"
             ELSE IF Lt(x, Num(lo)) \/ Lt(y, Num(lo)) THEN "False"
             ELSE IF Gt(Add(x, width), Num(hi_x)) \/ Gt(Add(y, height), Num(hi_y))
                  THEN "False"
             ELSE "True"

\* Mutant of IsValidBBox: the tolerance of 10 pixels forgotten on the right
\* and bottom edges.
IsValidBBox_NoFarTolerance(bbox, image_width, image_height) ==
    BBoxVerdict(bbox, px(-10), px(image_width), px(image_height))

\* ResultProcessor._is_valid_bbox: "True", "False", or "KeyError" when
\* bbox[0] raises an exception the function does not catch (a JSON object
\* of four keys).
IsValidBBox(bbox, image_width, image_height) ==
    IF bbox.t = "null" \/ Len(bbox.items) = 0 \/ Len(bbox.items) # 4 THEN "False"
    ELSE IF bbox.t = "dict" THEN "KeyError"
    ELSE IF \E i \in 1..4 : ~IsFloat(PyFloat(bbox.items[i])) THEN "False"
    ELSE LET x == PyFloat(bbox.items[1])
             y == PyFloat(bbox.items[2])
             width == PyFloat(bbox.items[3])
             height == PyFloat(bbox.items[4])
         IN  IF Le(width, Num(0)) \/ Le(height, Num(0)) THEN "False"
             ELSE IF Lt(x, Num(px(-10))) \/ Lt(y, Num(px(-10))) THEN "False"
             ELSE IF \/ Gt(Add(x, width), Num(px(image_width + 10)))
                     \/ Gt(Add(y, height), Num(px(image_height + 10)))
                  THEN "False"
             ELSE "True"

\* Mutant of ClampBBox: width and height clamped against the unclamped x, y.
ClampBBox_StaleOrigin(bbox, image_width, image_height) ==
    LET x0 == PyFloat(bbox[1])
        y0 == PyFloat(bbox[2])
        width0 == PyFloat(bbox[3])
        height0 == PyFloat(bbox[4])
        x == PyMax(Num(0), PyMin(x0, Num(px(image_width - 1))))
        y == PyMax(Num(0), PyMin(y0, Num(px(image_height - 1))))
        width == PyMax(Num(px(1)), PyMin(width0, Sub(Num(px(image_width)), x0)))
        height == PyMax(Num(px(1)), PyMin(height0, Sub(Num(px(image_height)), y0)))
    IN  <<x, y, width, height>>

\* Mutant of ClampBBox: width and height clamped one pixel short.
ClampBBox_OffByOne(bbox, image_width, image_height) ==
    LET x0 == PyFloat(bbox[1])
        y0 == PyFloat(bbox[2])
        width0 == PyFloat(bbox[3])
        height0 == PyFloat(bbox[4])
        x == PyMax(Num(0), PyMin(x0, Num(px(image_width - 1))))
        y == PyMax(Num(0), PyMin(y0, Num(px(image_height - 1))))
        width == PyMax(Num(px(1)), PyMin(width0, Sub(Num(px(image_width - 1)), x)))
        height == PyMax(Num(px(1)), PyMin(height0, Sub(Num(px(image_height - 1)), y)))
    IN  <<x, y, width, height>>

\* Mutant of ClampBBox: the bbox only converted to floats, not clamped.
ClampBBox_Unclamped(bbox, image_width, image_height) ==
    <<PyFloat(bbox[1]), PyFloat(bbox[2]), PyFloat(bbox[3]), PyFloat(bbox[4])>>

\* ResultProcessor._clamp_bbox, on the items of a bbox that passed
\* _is_valid_bbox.
ClampBBox(bbox, image_width, image_height) ==
    LET x0 == PyFloat(bbox[1])
        y0 == PyFloat(bbox[2])
        width0 == PyFloat(bbox[3])
        height0 == PyFloat(bbox[4])
        x == PyMax(Num(0), PyMin(x0, Num(px(image_width - 1))))
        y == PyMax(Num(0), PyMin(y0, Num(px(image_height - 1))))
        width == PyMax(Num(px(1)), PyMin(width0, Sub(Num(px(image_width)), x)))
        height == PyMax(Num(px(1)), PyMin(height0, Sub(Num(px(image_height)), y)))
    IN  <<x, y, width, height>>

\* ResultProcessor._bbox_area, on the Scale*Scale grid.
BBoxArea(bbox) ==
    IF Len(bbox.items) # 4 THEN 0
    ELSE PyFloat(bbox.items[3]).v * PyFloat(bbox.items[4]).v

Max2(a, b) == IF a > b THEN a ELSE b
Min2(a, b) == IF a < b THEN a ELSE b

\* ResultProcessor._calculate_overlap: the ratio intersection / union as
\* the fraction [n, d] (0.0 is 0/1).  Both bboxes are lists of floats here
\* (they were clamped), and the ratio of two integers below 2^53 is rounded
\* to the double nearest to it, so comparing the fraction with 7/10 decides
\* "overlap_ratio > 0.7" as the code does.
CalculateOverlap(bbox1, bbox2) ==
    IF Len(bbox1.items) # 4 \/ Len(bbox2.items) # 4 THEN [n |-> 0, d |-> 1]
    ELSE LET x1 == bbox1.items[1].v
             y1 == bbox1.items[2].v
             w1 == bbox1.items[3].v
             h1 == bbox1.items[4].v
             x2 == bbox2.items[1].v
             y2 == bbox2.items[2].v
             w2 == bbox2.items[3].v
             h2 == bbox2.items[4].v
             x_overlap == Max2(0, Min2(x1 + w1, x2 + w2) - Max2(x1, x2))
             y_overlap == Max2(0, Min2(y1 + h1, y2 + h2) - Max2(y1, y2))
             intersection == x_overlap * y_overlap
             area1 == w1 * h1
             area2 == w2 * h2
             union == area1 + area2 - intersection
         IN  IF union = 0 THEN [n |-> 0, d |-> 1]
             ELSE [n |-> intersection, d |-> union]

\* Mutant of IsDuplicateOverlap: ">=" for ">".
IsDuplicateOverlap_Inclusive(overlap_ratio) ==
    10 * overlap_ratio.n >= 7 * overlap_ratio.d

\* Mutant of IsDuplicateOverlap: the threshold 0.8 the code had before.
IsDuplicateOverlap_Eighty(overlap_ratio) ==
    10 * overlap_ratio.n > 8 * overlap_ratio.d

\* "overlap_ratio > 0.7" of _deduplicate_elements.
IsDuplicateOverlap(overlap_ratio) ==
    10 * overlap_ratio.n > 7 * overlap_ratio.d

\* ------------------------------------------ ResultProcessor, the lists

Categories == {"text_elements", "icons", "charts"}

EmptyLists == [text_elements |-> <<>>, icons |-> <<>>, charts |-> <<>>]

Smallest(S) == CHOOSE m \in S : \A n \in S : m <= n

\* Mutant of ClampedElement: a new record of the id and the bbox only.
ClampedElement_BBoxOnly(elem, image_width, image_height) ==
    [id |-> elem.id,
     bbox |-> List(ClampBBox(elem.bbox.items, image_width, image_height))]

\* _validate_elements, lines 125-126: elem['bbox'] = clamped_bbox on the
\* element's own dict; its other keys stay.
ClampedElement(elem, image_width, image_height) ==
    [elem EXCEPT !.bbox = List(ClampBBox(elem.bbox.items, image_width, image_height))]

\* elem.get('description', elem.get('text', 'unknown'))[:30] in the debug
\* messages of _filter_small_elements and _deduplicate_elements: the
\* f-string is built whatever the log level, and [:30] of a value that is
\* no string (null, a number) raises TypeError.
DebugLabel(elem) == Get(elem, "description", Get(elem, "text", PyStr(<<"u", "n", "k", "n", "o", "w", "n">>)))
DebugLabelRaises(elem) == DebugLabel(elem).ty \in {"None", "int"}

\* ResultProcessor._validate_elements.  The loop stops at the first element
\* whose check raises; the elements visited before it were already clamped
\* in place (elem['bbox'] = clamped_bbox), and the list handed in holds the
\* same objects, so it changes with them.
\*   raised: an exception left the loop; validated: the list returned;
\*   elements: the list handed in, as the loop leaves it.
ValidateElements(elements, image_width, image_height) ==
    LET verdict(i) ==
            IsValidBBox(GetBBox(elements[i], List(<<>>)), image_width, image_height)
        raising == {i \in 1..Len(elements) : verdict(i) = "KeyError"}
        stop == IF raising = {} THEN Len(elements) + 1 ELSE Smallest(raising)
        clamped(elem) == ClampedElement(elem, image_width, image_height)
        after == [i \in 1..Len(elements) |->
                    IF i < stop /\ verdict(i) = "True" THEN clamped(elements[i])
                    ELSE elements[i]]
        kept == {i \in 1..(stop - 1) : verdict(i) = "True"}
        nth(n) == CHOOSE i \in kept : Cardinality({j \in kept : j <= i}) = n
    IN  [raised |-> raising # {},
         validated |-> [n \in 1..Cardinality(kept) |-> after[nth(n)]],
         elements |-> after]

\* Mutant of KeepsArea: ">" for ">=".
KeepsArea_Strict(bbox, min_area) ==
    Len(bbox.items) = 4
    /\ PyFloat(bbox.items[3]).v * PyFloat(bbox.items[4]).v > px2(min_area)

\* The test of _filter_small_elements on one element's bbox.
KeepsArea(bbox, min_area) ==
    Len(bbox.items) = 4
    /\ PyFloat(bbox.items[3]).v * PyFloat(bbox.items[4]).v >= px2(min_area)

\* ResultProcessor._filter_small_elements
FilterSmallElements(elements, min_area) ==
    LET keep(elem) == KeepsArea(GetBBox(elem, List(<<>>)), min_area)
    IN  SelectSeq(elements, keep)

\* _filter_small_elements, lines 224-227: the debug message of an element
\* that is filtered out raises when its label does.
FilterRaises(elements, min_area) ==
    \E i \in 1..Len(elements) :
        /\ Len(GetBBox(elements[i], List(<<>>)).items) = 4
        /\ ~KeepsArea(GetBBox(elements[i], List(<<>>)), min_area)
        /\ DebugLabelRaises(elements[i])

\* Mutant of InsertByArea: an unstable sort, an element put in front of the
\* elements of its own area.
RECURSIVE InsertByArea_BeforeEqual(_, _)
InsertByArea_BeforeEqual(sorted_elements, elem) ==
    IF sorted_elements = <<>> THEN <<elem>>
    ELSE IF BBoxArea(Head(sorted_elements).bbox) > BBoxArea(elem.bbox)
         THEN <<Head(sorted_elements)>>
              \o InsertByArea_BeforeEqual(Tail(sorted_elements), elem)
    ELSE <<elem>> \o sorted_elements

\* Where sorted() puts one more element: behind every element of at least
\* its area (the sort is stable, and reverse=True keeps it stable).
RECURSIVE InsertByArea(_, _)
InsertByArea(sorted_elements, elem) ==
    IF sorted_elements = <<>> THEN <<elem>>
    ELSE IF BBoxArea(Head(sorted_elements).bbox) >= BBoxArea(elem.bbox)
         THEN <<Head(sorted_elements)>> \o InsertByArea(Tail(sorted_elements), elem)
    ELSE <<elem>> \o sorted_elements

\* Mutant of SortedByArea: the list left in its order.
SortedByArea_Unsorted(elements) == elements

\* sorted(elements, key=_bbox_area, reverse=True)
RECURSIVE SortedByArea(_)
SortedByArea(elements) ==
    IF elements = <<>> THEN <<>>
    ELSE InsertByArea(SortedByArea(SubSeq(elements, 1, Len(elements) - 1)),
                      elements[Len(elements)])

\* Mutant of GreedyAccept: an element is compared with every element that
\* came before it, kept or not.
RECURSIVE GreedyAgainstSeen(_, _, _)
GreedyAgainstSeen(sorted_elements, seen, result) ==
    IF sorted_elements = <<>> THEN result
    ELSE LET elem == Head(sorted_elements)
             is_duplicate ==
                 \E k \in 1..Len(seen) :
                     IsDuplicateOverlap(CalculateOverlap(elem.bbox, seen[k].bbox))
         IN  GreedyAgainstSeen(Tail(sorted_elements), Append(seen, elem),
                               IF is_duplicate THEN result ELSE Append(result, elem))
GreedyAccept_AgainstSeen(sorted_elements, result) ==
    GreedyAgainstSeen(sorted_elements, result, result)

\* The loop of _deduplicate_elements over the sorted list.
RECURSIVE GreedyAccept(_, _)
GreedyAccept(sorted_elements, result) ==
    IF sorted_elements = <<>> THEN result
    ELSE LET elem == Head(sorted_elements)
             is_duplicate ==
                 \E k \in 1..Len(result) :
                     IsDuplicateOverlap(CalculateOverlap(elem.bbox, result[k].bbox))
         IN  GreedyAccept(Tail(sorted_elements),
                          IF is_duplicate THEN result ELSE Append(result, elem))

\* ResultProcessor._deduplicate_elements
DeduplicateElements(elements) ==
    IF Len(elements) <= 1 THEN elements
    ELSE GreedyAccept(SortedByArea(elements), <<>>)

\* _deduplicate_elements, lines 264-267: the debug message of an element
\* that is removed as a duplicate raises when its label does.  Up to the
\* first such element the loop runs as GreedyAccept does.
DeduplicateRaises(elements) ==
    LET result == DeduplicateElements(elements)
    IN  \E i \in 1..Len(elements) :
            /\ \A k \in 1..Len(result) : result[k].id # elements[i].id
            /\ DebugLabelRaises(elements[i])

MinArea(category) ==
    CASE category = "text_elements" -> min_text_area
      [] category = "icons" -> min_icon_area
      [] category = "charts" -> min_chart_area

\* ---------------------------- ElementSegmentationService, its own checks

\* ElementSegmentationService._is_valid_bbox: no tolerance.
SvcIsValidBBox(bbox, image_width, image_height) ==
    IF bbox.t = "null" \/ Len(bbox.items) = 0 \/ Len(bbox.items) # 4 THEN "False"
    ELSE IF bbox.t = "dict" THEN "KeyError"
    ELSE IF \E i \in 1..4 : ~IsFloat(PyFloat(bbox.items[i])) THEN "False"
    ELSE LET x == PyFloat(bbox.items[1])
             y == PyFloat(bbox.items[2])
             width == PyFloat(bbox.items[3])
             height == PyFloat(bbox.items[4])
         IN  IF Le(width, Num(0)) \/ Le(height, Num(0)) THEN "False"
             ELSE IF Lt(x, Num(0)) \/ Lt(y, Num(0)) THEN "False"
             ELSE IF \/ Gt(Add(x, width), Num(px(image_width)))
                     \/ Gt(Add(y, height), Num(px(image_height)))
                  THEN "False"
             ELSE "True"

\* One of the three loops of
\* ElementSegmentationService._validate_and_clean_elements.
SvcValidateList(elements, image_width, image_height) ==
    LET verdict(elem) ==
            SvcIsValidBBox(GetBBox(elem, NullBBox), image_width, image_height)
        ok(elem) == verdict(elem) = "True"
    IN  [raised |-> \E i \in 1..Len(elements) : verdict(elements[i]) = "KeyError",
         validated |-> SelectSeq(elements, ok)]

\* ------------------------------------------------ ExportService, one slide

\* prs.slide_width = Inches(10), prs.slide_height = Inches(5.625), in EMU
\* (5.625 is 45/8).
slide_width == SlideWidthInches * EMU_PER_INCH
slide_height == (45 * EMU_PER_INCH) \div 8

\* A positive float far under one EMU's worth of pixels, such as 1e-9.
Tiny == [k |-> "tiny", v |-> 0]

\* n * s / d cut to an integer (0 <= n), computed without a product of
\* more than 31 bits; and whether n * s / d is a whole number.
Quotient(n, s, d) == n * (s \div d) + (n * (s % d)) \div d
Integral(n, s, d) == (n * (s % d)) % d = 0

\* int() of the float that stands for n * s / d.  int() cuts toward zero.
\* The float carries the rounding of the multiplications and divisions
\* before it; when n * s / d is a whole number q > 0 the float is q or
\* just under q, and int() gives q or q - 1 (57.0 px of 1000 on the slide
\* width gives 521207, not 521208).  under says which.
FloatToInt(n, s, d, under) ==
    IF under /\ Integral(n, s, d) /\ Quotient(n, s, d) > 0
    THEN Quotient(n, s, d) - 1
    ELSE Quotient(n, s, d)

\* Mutant of ToEmu: cut up to the next whole EMU, not down.
ToEmu_CutUp(val, slide_dim, image_dim, under) ==
    CASE val.k = "num" ->
            Num(Quotient(val.v, slide_dim, Scale * image_dim)
                + (IF Integral(val.v, slide_dim, Scale * image_dim) THEN 0 ELSE 1))
      [] val.k = "tiny" -> Num(1)
      [] val.k = "nan" -> ValueError
      [] OTHER -> TypeError

\* Inches((bbox[i] * scale) / 914400) with scale = slide_dim / image_dim,
\* lines 212-223 and 268-280: the EMU of one bbox entry (entries are not
\* negative here).  A string times a float raises TypeError, int() of NaN
\* raises ValueError.
ToEmu(val, slide_dim, image_dim, under) ==
    CASE val.k = "num" -> Num(FloatToInt(val.v, slide_dim, Scale * image_dim, under))
      [] val.k = "tiny" -> Num(0)
      [] val.k = "nan" -> ValueError
      [] OTHER -> TypeError

\* int(font_size_px * (ppt_height_inches / image_height) * 72), lines
\* 235-239; slide_height * 72 / 914400 is the whole number 405.
FontPoints(font_size_px, image_height, under) ==
    FloatToInt(font_size_px, (slide_height * PointsPerInch) \div EMU_PER_INCH,
               image_height, under)

\* str.strip() on the characters of a string.
IsSpace(c) == c \in {" ", "\n", "\t"}
RECURSIVE LStrip(_)
LStrip(chars) ==
    IF chars # <<>> /\ IsSpace(Head(chars)) THEN LStrip(Tail(chars)) ELSE chars
RECURSIVE RStrip(_)
RStrip(chars) ==
    IF chars # <<>> /\ IsSpace(chars[Len(chars)])
    THEN RStrip(SubSeq(chars, 1, Len(chars) - 1))
    ELSE chars
Strip(chars) == RStrip(LStrip(chars))

\* slide.shapes.add_picture(image_path, left=0, top=0, width=prs.slide_width,
\* height=prs.slide_height): the source image over the whole slide.
FullSlidePicture ==
    [shape |-> "picture", src |-> "image", left |-> 0, top |-> 0,
     width |-> slide_width, height |-> slide_height]

\* The four EMU values of a bbox of four entries.
BBoxEmu(bbox, image_width, image_height, under) ==
    [left |-> ToEmu(bbox.items[1], slide_width, image_width, under),
     top |-> ToEmu(bbox.items[2], slide_height, image_height, under),
     width |-> ToEmu(bbox.items[3], slide_width, image_width, under),
     height |-> ToEmu(bbox.items[4], slide_height, image_height, under)]

EmuRaises(emu) ==
    \E key \in {"left", "top", "width", "height"} : emu[key].k # "num"

\* Lines 208-210: text_elem.get('text', '').strip() and "if not
\* text_content: continue"; .strip() of a value that is no string raises
\* AttributeError, which the loop's except catches.
TextKept(text) == text.ty = "str" /\ Strip(text.s) # <<>>

\* One round of the text loop, lines 201-246: the shapes it adds.  An
\* exception before add_textbox adds nothing; one after it (a font size
\* that cannot be multiplied) leaves the text box without font size.
PlaceText(text_elem, image_width, image_height, under) ==
    LET bbox == GetBBox(text_elem, List(<<>>))
        text == Get(text_elem, "text", PyStr(<<>>))
        font_size_px == Get(text_elem, "font_size", PyInt(DefaultFontSize))
        emu == BBoxEmu(bbox, image_width, image_height, under)
    IN  IF bbox.t = "null" \/ Len(bbox.items) # 4 THEN <<>>
        ELSE IF ~TextKept(text) THEN <<>>
        ELSE IF EmuRaises(emu) THEN <<>>
        ELSE <<[shape |-> "textbox", id |-> text_elem.id,
                left |-> emu.left.v, top |-> emu.top.v,
                width |-> emu.width.v, height |-> emu.height.v,
                text |-> Strip(text.s),
                font |-> IF font_size_px.ty = "int"
                         THEN [set |-> TRUE,
                               pt |-> FontPoints(font_size_px.s[1], image_height, under),
                               bold |-> Get(text_elem, "font_weight", None)
                                            = PyStr(<<"b", "o", "l", "d">>)]
                         ELSE [set |-> FALSE, pt |-> 0, bold |-> FALSE]]>>

\* int() of a bbox entry for the crop box, lines 258-263.
CropInt(val) ==
    CASE val.k = "num" -> Num(val.v \div Scale)
      [] val.k = "str" -> Num(val.v \div Scale)
      [] val.k = "tiny" -> Num(0)
      [] val.k = "nan" -> ValueError
      [] val.k = "txt" -> ValueError
      [] OTHER -> TypeError

\* One round of the loop over icons + charts, lines 251-287: crop, save
\* to a temporary file, add_picture.  A crop box of no width or height
\* cannot be saved as PNG; every exception is caught by the loop.  Where
\* Add cannot form bbox[0] + bbox[2] (two strings are joined, a tiny
\* width leaves the sum where it was) the round adds no picture either:
\* the strings fail at bbox[0] * scale_x, the tiny width at the save.
PlaceVisual(elem, image_width, image_height, under) ==
    LET bbox == GetBBox(elem, List(<<>>))
        emu == BBoxEmu(bbox, image_width, image_height, under)
        x0 == CropInt(bbox.items[1])
        y0 == CropInt(bbox.items[2])
        x1 == CropInt(Add(bbox.items[1], bbox.items[3]))
        y1 == CropInt(Add(bbox.items[2], bbox.items[4]))
    IN  IF bbox.t = "null" \/ Len(bbox.items) # 4 THEN <<>>
        ELSE IF \E c \in {x0, y0, x1, y1} : c.k # "num" THEN <<>>
        ELSE IF x1.v <= x0.v \/ y1.v <= y0.v THEN <<>>
        ELSE IF EmuRaises(emu) THEN <<>>
        ELSE <<[shape |-> "picture", src |-> "crop", id |-> elem.id,
                left |-> emu.left.v, top |-> emu.top.v,
                width |-> emu.width.v, height |-> emu.height.v]>>

RECURSIVE TextShapes(_, _, _, _)
TextShapes(text_elements, image_width, image_height, under) ==
    IF text_elements = <<>> THEN <<>>
    ELSE PlaceText(Head(text_elements), image_width, image_height, under)
         \o TextShapes(Tail(text_elements), image_width, image_height, under)

RECURSIVE VisualShapes(_, _, _, _)
VisualShapes(all_visual_elements, image_width, image_height, under) ==
    IF all_visual_elements = <<>> THEN <<>>
    ELSE PlaceVisual(Head(all_visual_elements), image_width, image_height, under)
         \o VisualShapes(Tail(all_visual_elements), image_width, image_height, under)

\* Mutant of AllVisualElements: the charts before the icons.
AllVisualElements_ChartsFirst(elements_info) ==
    Get(elements_info, "charts", <<>>) \o Get(elements_info, "icons", <<>>)

\* all_visual_elements, line 249.
AllVisualElements(elements_info) ==
    Get(elements_info, "icons", <<>>) \o Get(elements_info, "charts", <<>>)

\* add_picture reads the file with PIL and takes BMP, GIF, JPEG, PNG, TIFF
\* and WMF only: a file PIL cannot read ("corrupt") and one of another
\* format ("webp") make it raise.
AddPictureRaises(kind) == kind # "png"

\* Image.open(image_path), line 340.
ImageOpenRaises(kind) == kind = "corrupt"

\* ExportService._add_slide_with_elements as a whole: whether it raised,
\* and the shapes it added to the slide before that.
AddSlideWithElements(kind, size, seg, under) ==
    IF seg.raises THEN [raised |-> TRUE, shapes |-> <<>>]
    ELSE IF AddPictureRaises(kind) THEN [raised |-> TRUE, shapes |-> <<>>]
    ELSE [raised |-> FALSE,
          shapes |->
              <<FullSlidePicture>>
              \o TextShapes(Get(seg.elements_info, "text_elements", <<>>),
                            size[1], size[2], under)
              \o VisualShapes(AllVisualElements(seg.elements_info),
                              size[1], size[2], under)]

\* ---------------------------------------------------------------- state

VARIABLES
    image_size,     \* (image_width, image_height) of the source image, pixels
    response,       \* the parsed response as the parser returned it
    elements_info,  \* the parsed response handed to the normaliser; its
                    \* element objects are the ones _validate_elements edits
    rp_pc,          \* where ResultProcessor.validate_and_clean_elements is
    validated,      \* its three lists after _validate_elements
    filtered,       \* ... after _filter_small_elements
    returned,       \* ... after _deduplicate_elements: the dict it returns
    seg_pc,         \* where ElementSegmentationService.segment_image is
    seg_result,     \* the dict segment_image returns
    rp_pass,        \* which application of validate_and_clean_elements runs
    first_returned, \* the dict its first application returned
    bb_in,          \* one element's bbox as the detector gave it
    bb_cur,         \* elem['bbox'] now
    bb_valid,       \* what _is_valid_bbox answered for bb_in
    bb_clamps,      \* how many times _clamp_bbox was applied to bb_cur
    image_kind,     \* what the file at image_path is: "png", "webp", "corrupt"
    seg_out,        \* what segment_image(image_path) does: raises, or the
                    \* dict it returns
    fp_under,       \* whether a float product on a whole number is under it
    slide_pc,       \* where _add_slide_with_elements is
    shapes,         \* slide.shapes of the slide being built
    image_paths,    \* the batch: per path the file, its size, its seg_out
    use_segmentation, \* use_segmentation and segmentation_service
    batch_pc,       \* where create_pptx_with_segmented_elements is
    batch_i,        \* how many of image_paths the loop went through
    slides,         \* prs.slides: per slide its shapes
    response_text,  \* the argument of _parse_json_response, its characters
    cleaned,        \* its local variable cleaned when it ends
    parse_pc,       \* where _parse_json_response is
    parse_result,   \* the value it returns
    parse_error,    \* the message of the ValueError it raises
    provider_config, \* the configuration when the service is built: the
                    \* provider format and the two api keys, each set or not
    image_stats,    \* the variances of the image's edge and centre samples
    client,         \* self.client: the api key it was created with, or None
    svc_pc,         \* where the service and its caller are for one image
    prompt,         \* the prompt of the generate_content call
    vision,         \* what generate_content does when called
    calls,          \* how many times generate_content was called
    svc_info,       \* elements_info of segment_image, line 96
    normalized,     \* whether _validate_and_clean_elements ran, line 99
    svc_error,      \* the exception segment_image raised: type and message
    svc_result      \* the dict segment_image returned

vars == <<image_size, response, elements_info, rp_pc, validated, filtered, returned,
          seg_pc, seg_result, rp_pass, first_returned, bb_in, bb_cur, bb_valid, bb_clamps,
          image_kind, seg_out, fp_under, slide_pc, shapes,
          image_paths, use_segmentation, batch_pc, batch_i, slides,
          response_text, cleaned, parse_pc, parse_result, parse_error,
          provider_config, image_stats, client, svc_pc, prompt, vision, calls,
          svc_info, normalized, svc_error, svc_result>>

slide_vars == <<image_kind, seg_out, fp_under, slide_pc, shapes>>
batch_vars == <<image_paths, use_segmentation, batch_pc, batch_i, slides>>
parse_vars == <<response_text, cleaned, parse_pc, parse_result, parse_error>>
svc_vars == <<provider_config, image_stats, client, svc_pc, prompt, vision, calls,
              svc_info, normalized, svc_error, svc_result>>
ex_vars == <<slide_vars, batch_vars, parse_vars, svc_vars>>

\* The export variables where no export runs.
NoSegmentation == [raises |-> TRUE, elements_info |-> EmptyLists]
SlideIdle ==
    /\ image_kind = "png"
    /\ seg_out = NoSegmentation
    /\ fp_under = FALSE
    /\ slide_pc = "idle"
    /\ shapes = <<>>
BatchIdle ==
    /\ image_paths = <<>>
    /\ use_segmentation = FALSE
    /\ batch_pc = "idle"
    /\ batch_i = 0
    /\ slides = <<>>
NoValue == [ty |-> "none", text |-> <<>>]
ParserIdle ==
    /\ response_text = <<>>
    /\ cleaned = <<>>
    /\ parse_pc = "idle"
    /\ parse_result = NoValue
    /\ parse_error = <<>>

\* The service's variables where no service runs.
NoKey == "none"
NoError == [type |-> "none", message |-> <<>>]
NoCall == [kind |-> "idle", type |-> "none", message |-> <<>>, text |-> <<>>]
ServiceIdle ==
    /\ provider_config =
           [format |-> "gemini", openai_key |-> NoKey, google_key |-> NoKey]
    /\ image_stats = [color_variance |-> 0, local_variance |-> 0]
    /\ client = NoKey
    /\ svc_pc = "idle"
    /\ prompt = "none"
    /\ vision = NoCall
    /\ calls = 0
    /\ svc_info = NoValue
    /\ normalized = FALSE
    /\ svc_error = NoError
    /\ svc_result = EmptyLists

rp_vars == <<elements_info, rp_pc, validated, filtered, returned, seg_pc, seg_result,
             rp_pass, first_returned>>
bb_vars == <<bb_in, bb_cur, bb_valid, bb_clamps>>

\* ------------------------------------------- inputs of the normaliser

Box(x, y, w, h) == List(<<Num(px(x)), Num(px(y)), Num(px(w)), Num(px(h))>>)

Sizes == {<<500, 40>>, <<30, 20>>}

\* Nested boxes around the text threshold, with IoU 0.8, 0.75, 0.7, 0.6
\* among them; one pixel^2 under the threshold; a box over the right and
\* bottom edge within the tolerance; a box with sub-pixel sides; no bbox.
TextBoxes ==
    { Box(0, 0, 20, 10), Box(0, 0, 16, 10), Box(0, 0, 14, 10), Box(0, 0, 12, 10),
      Box(0, 0, 10, 10), Box(0, 0, 9, 11), Box(25, 0, 15, 30),
      List(<<Num(px(40)), Num(0), Num(px(20) + 1), Num(px(5))>>),
      Absent }

IconBoxes ==
    { Box(0, 0, 20, 10), Box(0, 0, 24, 10), Box(0, 0, 199, 1), Box(-5, -5, 30, 20),
      Dict(<<Num(0), Num(0), Num(px(20)), Num(px(10))>>) }

ChartBoxes ==
    { Box(100, 0, 50, 10), Box(0, 0, 499, 1),
      List(<<Str(0), Str(0), Str(px(50)), Str(px(10))>>),
      List(<<NaN, Num(0), Num(px(25)), Num(px(20))>>),
      Box(0, 20, 60, 10) }

\* The list the parser yields for the bboxes bs: the id of an element is
\* its place in the detector's list and stands for its other fields.
Elements(bs) == [i \in 1..Len(bs) |-> [id |-> i, bbox |-> bs[i]]]

Init ==
    /\ image_size \in Sizes
    /\ \E a \in 0..MaxElems :
         \E b \in 0..(MaxElems - a) :
           \E c \in 0..(MaxElems - a - b) :
             \E t \in [1..a -> TextBoxes], i \in [1..b -> IconBoxes],
                e \in [1..c -> ChartBoxes] :
                 response = [text_elements |-> Elements(t),
                             icons |-> Elements(i),
                             charts |-> Elements(e)]
    /\ elements_info = response
    /\ rp_pc = "start"
    /\ validated = EmptyLists
    /\ filtered = EmptyLists
    /\ returned = EmptyLists
    /\ seg_pc = "start"
    /\ seg_result = EmptyLists
    /\ rp_pass = 1
    /\ first_returned = EmptyLists
    /\ bb_in = Absent
    /\ bb_cur = Absent
    /\ bb_valid = "idle"
    /\ bb_clamps = 0
    /\ SlideIdle
    /\ BatchIdle
    /\ ParserIdle
    /\ ServiceIdle

\* The parsed response after _validate_elements went over the list under
\* key: the list holds the same element objects, so it shows their new
\* bboxes; a key the response does not have stays missing.
Mutated(d, key, elements) == IF key \in DOMAIN d THEN [d EXCEPT ![key] = elements] ELSE d

\* validate_and_clean_elements, lines 30-63: background_info is taken over,
\* then the three _validate_elements calls, text first; an exception in one
\* ends the call.
Validate ==
    /\ rp_pc = "start"
    /\ LET t == ValidateElements(Get(elements_info, "text_elements", <<>>),
                                 image_size[1], image_size[2])
           i == ValidateElements(Get(elements_info, "icons", <<>>),
                                 image_size[1], image_size[2])
           c == ValidateElements(Get(elements_info, "charts", <<>>),
                                 image_size[1], image_size[2])
           after_t == Mutated(elements_info, "text_elements", t.elements)
           after_i == Mutated(after_t, "icons", i.elements)
           after_c == Mutated(after_i, "charts", c.elements)
       IN  IF t.raised
           THEN /\ rp_pc' = "raised"
                /\ elements_info' = after_t
                /\ UNCHANGED validated
           ELSE IF i.raised
           THEN /\ rp_pc' = "raised"
                /\ elements_info' = after_i
                /\ UNCHANGED validated
           ELSE IF c.raised
           THEN /\ rp_pc' = "raised"
                /\ elements_info' = after_c
                /\ UNCHANGED validated
           ELSE /\ rp_pc' = "validated"
                /\ elements_info' = after_c
                /\ validated' =
                       [text_elements |-> t.validated, icons |-> i.validated,
                        charts |-> c.validated,
                        background_info |->
                            Get(elements_info, "background_info", PyDict(<<>>))]
    /\ UNCHANGED <<image_size, response, filtered, returned, seg_pc, seg_result,
                   rp_pass, first_returned, bb_vars, ex_vars>>

\* validate_and_clean_elements, lines 65-81: the three
\* _filter_small_elements calls on the lists of the dict being built.
Filter ==
    /\ rp_pc = "validated"
    /\ IF \E c \in Categories : FilterRaises(validated[c], MinArea(c))
       THEN rp_pc' = "raised" /\ UNCHANGED filtered
       ELSE /\ rp_pc' = "filtered"
            /\ filtered' =
                   [key \in DOMAIN validated |->
                       IF key \in Categories
                       THEN FilterSmallElements(validated[key], MinArea(key))
                       ELSE validated[key]]
    /\ UNCHANGED <<image_size, response, elements_info, validated, returned, seg_pc, seg_result,
                   rp_pass, first_returned, bb_vars, ex_vars>>

\* validate_and_clean_elements, lines 83-99: the three
\* _deduplicate_elements calls, then the dict is returned.
Deduplicate ==
    /\ rp_pc = "filtered"
    /\ IF \E c \in Categories : DeduplicateRaises(filtered[c])
       THEN rp_pc' = "raised" /\ UNCHANGED returned
       ELSE /\ rp_pc' = "returned"
            /\ returned' =
                   [key \in DOMAIN filtered |->
                       IF key \in Categories THEN DeduplicateElements(filtered[key])
                       ELSE filtered[key]]
    /\ UNCHANGED <<image_size, response, elements_info, validated, filtered, seg_pc, seg_result,
                   rp_pass, first_returned, bb_vars, ex_vars>>

\* ElementSegmentationService.segment_image on the parsed response: its own
\* _validate_and_clean_elements.
SegmentImage ==
    /\ seg_pc = "start"
    /\ LET t == SvcValidateList(Get(elements_info, "text_elements", <<>>),
                                image_size[1], image_size[2])
           i == SvcValidateList(Get(elements_info, "icons", <<>>),
                                image_size[1], image_size[2])
           c == SvcValidateList(Get(elements_info, "charts", <<>>),
                                image_size[1], image_size[2])
       IN  IF t.raised \/ i.raised \/ c.raised
           THEN seg_pc' = "raised" /\ UNCHANGED seg_result
           ELSE /\ seg_pc' = "returned"
                /\ seg_result' =
                       [text_elements |-> t.validated, icons |-> i.validated,
                        charts |-> c.validated,
                        background_info |->
                            Get(elements_info, "background_info", PyDict(<<>>))]
    /\ UNCHANGED <<image_size, response, elements_info, rp_pc, validated, filtered, returned,
                   rp_pass, first_returned, bb_vars, ex_vars>>

Next == Validate \/ Filter \/ Deduplicate \/ SegmentImage

Spec == Init /\ [][Next]_vars

\* ------------------------------ one element through _validate_elements

BBSizes == {<<1, 1>>, <<4, 3>>}

\* Values around every comparison of _is_valid_bbox and _clamp_bbox for the
\* sizes above (one grid step is 1/Scale pixel), and values that are no
\* plain number.
XValues ==
    { Num(px(-11)), Num(px(-10) - 1), Num(px(-10)), Num(-1), Num(0), Num(1),
      Num(px(3)), Num(px(3) + 1), Num(px(4)), Str(0), NaN, Txt, Null }
YValues ==
    { Num(px(-10) - 1), Num(px(-10)), Num(0), Num(1), Num(px(2)), Str(px(1)), NaN }
WidthValues ==
    { Num(px(-1)), Num(0), Num(1), Num(px(1)), Num(px(1) + 1), Num(px(4)),
      Num(px(11)), Num(px(11) + 1), Num(px(14)), Num(px(14) + 1), Str(px(1)), NaN, Txt }
HeightValues ==
    { Num(0), Num(1), Num(px(1)), Num(px(3)), Num(px(13)), Num(px(13) + 1), NaN, Null }

BBoxInputs ==
    { List(<<x, y, w, h>>) : x \in XValues, y \in YValues, w \in WidthValues,
                             h \in HeightValues }
    \cup { List(<<>>), List(<<Num(0), Num(0), Num(px(1))>>),
           List(<<Num(0), Num(0), Num(px(1)), Num(px(1)), Num(px(1))>>),
           Dict(<<Num(0), Num(0), Num(px(1)), Num(px(1))>>), Dict(<<>>),
           Chars(<<Str(px(1)), Str(px(1)), Str(px(1)), Str(px(1))>>),
           Chars(<<Str(px(1)), Txt, Str(px(1)), Str(px(1))>>),
           NullBBox, Absent }

InitBBox ==
    /\ image_size \in BBSizes
    /\ bb_in \in BBoxInputs
    /\ bb_cur = bb_in
    /\ bb_valid = "unset"
    /\ bb_clamps = 0
    /\ SlideIdle
    /\ BatchIdle
    /\ ParserIdle
    /\ ServiceIdle
    /\ response = EmptyLists
    /\ elements_info = EmptyLists
    /\ rp_pc = "idle"
    /\ validated = EmptyLists
    /\ filtered = EmptyLists
    /\ returned = EmptyLists
    /\ seg_pc = "idle"
    /\ seg_result = EmptyLists
    /\ rp_pass = 1
    /\ first_returned = EmptyLists

\* _validate_elements, lines 122-123: the check of one element's bbox.
CheckBBox ==
    /\ bb_valid = "unset"
    /\ bb_valid' = IsValidBBox(GetBBox([bbox |-> bb_cur], List(<<>>)),
                               image_size[1], image_size[2])
    /\ UNCHANGED <<image_size, response, bb_in, bb_cur, bb_clamps, rp_vars, ex_vars>>

\* _validate_elements, lines 125-126: elem['bbox'] = _clamp_bbox(bbox, ...),
\* which only a bbox that passed the check reaches; applied again, it clamps
\* the clamped bbox.
ClampElement ==
    /\ bb_valid = "True"
    /\ bb_clamps < MaxClamps
    /\ bb_cur' = List(ClampBBox(bb_cur.items, image_size[1], image_size[2]))
    /\ bb_clamps' = bb_clamps + 1
    /\ UNCHANGED <<image_size, response, bb_in, bb_valid, rp_vars, ex_vars>>

NextBBox == CheckBBox \/ ClampElement

SpecBBox == InitBBox /\ [][NextBBox]_vars

\* --------------------------- raw records with their other fields and keys

\* The element of the list at place i: id stands for the identity of the
\* dict object, the other fields are the keys the detector gave.
WithId(record, i) ==
    [key \in DOMAIN record \cup {"id"} |-> IF key = "id" THEN i ELSE record[key]]

Records(rs) == [i \in 1..Len(rs) |-> WithId(rs[i], i)]

\* The same with ids from base + 1 on, so that the elements of the three
\* lists of one dict differ in their ids.
RecordsFrom(rs, base) == [i \in 1..Len(rs) |-> WithId(rs[i], base + i)]

\* A box over the text threshold, one inside it with IoU 0.8, one of 99
\* pixel^2, one over the right edge that is clamped to 10 x 10.
RecordBoxes ==
    {Box(0, 0, 20, 10), Box(0, 0, 16, 10), Box(0, 0, 9, 11), Box(490, 0, 20, 10)}

\* "text": a word, the empty string, null; or no such key.
TextValues == {PyStr(<<"H", "i">>), PyStr(<<>>), None}

TextRecord(b, t) ==
    [bbox |-> b, text |-> t, font_size |-> PyInt(24), font_weight |-> PyStr(<<"b">>)]

\* The text records: each box with a word; the duplicate and the small
\* one also with the empty string and with null; one without the key.
TextRecords ==
    { TextRecord(b, PyStr(<<"H", "i">>)) : b \in RecordBoxes }
    \cup { TextRecord(b, t) :
             b \in {Box(0, 0, 16, 10), Box(0, 0, 9, 11)}, t \in TextValues }
    \cup { [bbox |-> Box(0, 0, 20, 10)] }

\* The icons list: kept; filtered out with a null description; filtered
\* out with a description and a null text.
IconLists ==
    { <<>>,
      <<[bbox |-> Box(0, 0, 20, 10), description |-> PyStr(<<"l", "o", "g", "o">>),
         type |-> PyStr(<<"i">>)]>>,
      <<[bbox |-> Box(0, 0, 5, 5), description |-> None]>>,
      <<[bbox |-> Box(0, 0, 5, 5), description |-> PyStr(<<"d", "o", "t">>),
         text |-> None]>> }

\* The charts list: one chart of 499 pixel^2 with neither description nor
\* text.
ChartLists == { <<>>, <<[bbox |-> Box(0, 0, 499, 1), type |-> PyStr(<<"b", "a", "r">>)]>> }

BackgroundInfos == { PyDict(<<"t", "y", "p", "e">>), PyDict(<<>>), None }

\* The top-level mappings: every key may be missing.
Responses ==
    LET texts == UNION {[1..n -> TextRecords] : n \in 0..MaxTexts}
        full == { [text_elements |-> Records(t), icons |-> Records(i),
                   charts |-> Records(c), background_info |-> b] :
                    t \in texts, i \in IconLists, c \in ChartLists,
                    b \in BackgroundInfos }
        without(d, keys) == [key \in DOMAIN d \ keys |-> d[key]]
    IN  full
        \cup { without(d, {"background_info"}) : d \in full }
        \cup { without(d, {"icons", "charts"}) : d \in full }
        \cup { without(d, {"text_elements"}) : d \in full }
        \cup { without(d, {"text_elements", "icons", "charts", "background_info"}) :
                 d \in full }

InitRecords ==
    /\ image_size = <<500, 40>>
    /\ response \in Responses
    /\ elements_info = response
    /\ rp_pc = "start"
    /\ validated = EmptyLists
    /\ filtered = EmptyLists
    /\ returned = EmptyLists
    /\ seg_pc = "idle"
    /\ seg_result = EmptyLists
    /\ rp_pass = 1
    /\ first_returned = EmptyLists
    /\ bb_in = Absent
    /\ bb_cur = Absent
    /\ bb_valid = "idle"
    /\ bb_clamps = 0
    /\ SlideIdle
    /\ BatchIdle
    /\ ParserIdle
    /\ ServiceIdle

NextRecords == Validate \/ Filter \/ Deduplicate

SpecRecords == InitRecords /\ [][NextRecords]_vars

\* ------------------- validate_and_clean_elements applied to its own output

\* Bboxes for the second application: two nested boxes with IoU 0.8, two
\* boxes of one area that overlap little, a box over the left and top
\* edge, a box with NaN, a box under the text threshold; with them no icon
\* and no chart, or an icon over the edge, an icon under its threshold, a
\* chart, a chart with a bbox of numeric strings.
AgainTextBoxes ==
    { Box(0, 0, 20, 10), Box(0, 0, 16, 10), Box(0, 0, 10, 20),
      Box(-5, -5, 30, 20), List(<<NaN, Num(0), Num(px(25)), Num(px(20))>>),
      Box(0, 0, 9, 11) }
AgainVisuals ==
    { [icons |-> <<>>, charts |-> <<>>],
      [icons |-> <<Box(-5, -5, 30, 20)>>, charts |-> <<Box(100, 0, 50, 10)>>],
      [icons |-> <<Box(0, 0, 199, 1), Box(0, 0, 24, 10)>>,
       charts |-> <<List(<<Str(0), Str(0), Str(px(50)), Str(px(10))>>)>>] }

InitAgain ==
    /\ image_size \in Sizes
    /\ \E n \in 0..MaxElems :
         \E t \in [1..n -> AgainTextBoxes], v \in AgainVisuals :
             response = [text_elements |-> Elements(t), icons |-> Elements(v.icons),
                         charts |-> Elements(v.charts)]
    /\ elements_info = response
    /\ rp_pc = "start"
    /\ validated = EmptyLists
    /\ filtered = EmptyLists
    /\ returned = EmptyLists
    /\ seg_pc = "idle"
    /\ seg_result = EmptyLists
    /\ rp_pass = 1
    /\ first_returned = EmptyLists
    /\ bb_in = Absent
    /\ bb_cur = Absent
    /\ bb_valid = "idle"
    /\ bb_clamps = 0
    /\ SlideIdle
    /\ BatchIdle
    /\ ParserIdle
    /\ ServiceIdle

\* validate_and_clean_elements is called with the dict it returned.
Reapply ==
    /\ rp_pc = "returned"
    /\ rp_pass = 1
    /\ rp_pass' = 2
    /\ first_returned' = returned
    /\ elements_info' = returned
    /\ rp_pc' = "start"
    /\ validated' = EmptyLists
    /\ filtered' = EmptyLists
    /\ returned' = EmptyLists
    /\ UNCHANGED <<image_size, response, seg_pc, seg_result, bb_vars, ex_vars>>

NextAgain == Validate \/ Filter \/ Deduplicate \/ Reapply

SpecAgain == InitAgain /\ [][NextAgain]_vars

\* ------------------------------------- _add_slide_with_elements, one slide

\* The normaliser's variables where no normaliser runs.
NormaliserIdle ==
    /\ response = EmptyLists
    /\ elements_info = EmptyLists
    /\ rp_pc = "idle"
    /\ validated = EmptyLists
    /\ filtered = EmptyLists
    /\ returned = EmptyLists
    /\ seg_pc = "idle"
    /\ seg_result = EmptyLists
    /\ rp_pass = 1
    /\ first_returned = EmptyLists
    /\ bb_in = Absent
    /\ bb_cur = Absent
    /\ bb_valid = "idle"
    /\ bb_clamps = 0

\* Two images of one height and two widths.
SlideSizes == {<<1000, 600>>, <<500, 600>>}

Bold == PyStr(<<"b", "o", "l", "d">>)
StringBox == List(<<Str(px(100)), Str(px(100)), Str(px(200)), Str(px(100))>>)
Hi == PyStr(<<"H", "i">>)

\* Text elements as segment_image returns them (each bbox passes the
\* service's _is_valid_bbox for both sizes): a word at [100,100,200,100]
\* with 24 px; a word at odd half-pixels with 25 px; the empty string;
\* blanks; no text key; a null text; a bbox of numeric strings; a width
\* of 1e-9 under a padded word and no font size; a null font size.
SlideTextRecords ==
    { [bbox |-> Box(100, 100, 200, 100), text |-> Hi, font_size |-> PyInt(24),
       font_weight |-> Bold],
      [bbox |-> List(<<Num(px(1)), Num(px(101)), Num(px(3) + 1), Num(px(3))>>),
       text |-> Hi, font_size |-> PyInt(25), font_weight |-> PyStr(<<"n">>)],
      [bbox |-> Box(100, 100, 200, 100), text |-> PyStr(<<>>), font_size |-> PyInt(24)],
      [bbox |-> Box(100, 100, 200, 100), text |-> PyStr(<<" ", "\n">>),
       font_size |-> PyInt(24)],
      [bbox |-> Box(100, 100, 200, 100)],
      [bbox |-> Box(100, 100, 200, 100), text |-> None],
      [bbox |-> StringBox, text |-> Hi, font_size |-> PyInt(24)],
      [bbox |-> List(<<Num(0), Num(0), Tiny, Num(px(10))>>),
       text |-> PyStr(<<" ", "H", "i", " ">>)],
      [bbox |-> Box(100, 100, 200, 100), text |-> Hi, font_size |-> None] }

SlideIconLists ==
    { <<>>,
      <<[bbox |-> Box(100, 100, 200, 100), description |-> PyStr(<<"l", "o", "g", "o">>)]>>,
      <<[bbox |-> StringBox]>> }

SlideChartLists == { <<>>, <<[bbox |-> Box(0, 300, 400, 200)]>> }

\* What segment_image does for the image: it raises, or it returns a dict
\* of the four keys.
SegOutcomes ==
    LET texts == UNION {[1..n -> SlideTextRecords] : n \in 0..MaxTexts}
    IN  { NoSegmentation }
        \cup { [raises |-> FALSE,
                elements_info |->
                    [text_elements |-> Records(t), icons |-> RecordsFrom(i, 10),
                     charts |-> RecordsFrom(c, 20), background_info |-> PyDict(<<>>)]] :
                 t \in texts, i \in SlideIconLists, c \in SlideChartLists }

InitSlide ==
    /\ image_size \in SlideSizes
    /\ image_kind \in {"png", "webp"}
    /\ seg_out \in SegOutcomes
    /\ fp_under \in BOOLEAN
    /\ slide_pc = "start"
    /\ shapes = <<>>
    /\ BatchIdle
    /\ ParserIdle
    /\ ServiceIdle
    /\ NormaliserIdle

\* Lines 175-190: the scales, then segment_image; its exception is
\* raised again.
SegmentSlide ==
    /\ slide_pc = "start"
    /\ slide_pc' = IF seg_out.raises THEN "raised" ELSE "segmented"
    /\ UNCHANGED <<image_size, response, rp_vars, bb_vars, image_kind, seg_out, fp_under,
                   shapes, batch_vars, parse_vars, svc_vars>>

\* Lines 192-198: the background picture.
AddBackground ==
    /\ slide_pc = "segmented"
    /\ IF AddPictureRaises(image_kind)
       THEN slide_pc' = "raised" /\ UNCHANGED shapes
       ELSE slide_pc' = "background" /\ shapes' = Append(shapes, FullSlidePicture)
    /\ UNCHANGED <<image_size, response, rp_vars, bb_vars, image_kind, seg_out, fp_under,
                   batch_vars, parse_vars, svc_vars>>

\* Lines 201-246: the loop over the text elements.
AddTextElements ==
    /\ slide_pc = "background"
    /\ slide_pc' = "texts"
    /\ shapes' = shapes \o TextShapes(Get(seg_out.elements_info, "text_elements", <<>>),
                                      image_size[1], image_size[2], fp_under)
    /\ UNCHANGED <<image_size, response, rp_vars, bb_vars, image_kind, seg_out, fp_under,
                   batch_vars, parse_vars, svc_vars>>

\* Lines 249-287: the loop over icons + charts.
AddVisualElements ==
    /\ slide_pc = "texts"
    /\ slide_pc' = "done"
    /\ shapes' = shapes \o VisualShapes(AllVisualElements(seg_out.elements_info),
                                        image_size[1], image_size[2], fp_under)
    /\ UNCHANGED <<image_size, response, rp_vars, bb_vars, image_kind, seg_out, fp_under,
                   batch_vars, parse_vars, svc_vars>>

NextSlide == SegmentSlide \/ AddBackground \/ AddTextElements \/ AddVisualElements

SpecSlide == InitSlide /\ [][NextSlide]_vars

\* ----------------------------- create_pptx_with_segmented_elements, a batch

\* What is at a path: nothing, a PNG, a WEBP (PIL reads it, add_picture
\* takes no WEBP), a file that is no image.
FileKinds == {"missing", "png", "webp", "corrupt"}

\* What segment_image does for one image of the batch: it raises; it
\* returns a text and an icon; it returns two texts, the second with a
\* bbox of numeric strings, which cannot be mapped.
BatchSegOutcomes ==
    { NoSegmentation,
      [raises |-> FALSE,
       elements_info |->
           [text_elements |->
                Records(<<[bbox |-> Box(100, 100, 200, 100), text |-> Hi,
                           font_size |-> PyInt(24)]>>),
            icons |-> RecordsFrom(<<[bbox |-> Box(0, 300, 400, 200)]>>, 10),
            charts |-> <<>>, background_info |-> PyDict(<<>>)]],
      [raises |-> FALSE,
       elements_info |->
           [text_elements |->
                Records(<<[bbox |-> Box(100, 100, 200, 100), text |-> Hi,
                           font_size |-> PyInt(24)],
                          [bbox |-> StringBox, text |-> Hi, font_size |-> PyInt(24)]>>),
            icons |-> <<>>, charts |-> <<>>, background_info |-> PyDict(<<>>)]] }

BatchImages ==
    { [kind |-> k, size |-> <<1000, 600>>, seg |-> o] :
        k \in FileKinds, o \in BatchSegOutcomes }

\* use_segmentation is FALSE when the caller passes False and when
\* ElementSegmentationService() raises (lines 311-319).
InitBatch ==
    /\ image_paths \in UNION {[1..n -> BatchImages] : n \in 0..MaxImages}
    /\ use_segmentation \in BOOLEAN
    /\ fp_under \in BOOLEAN
    /\ batch_pc = "loop"
    /\ batch_i = 0
    /\ slides = <<>>
    /\ image_size = <<1000, 600>>
    /\ image_kind = "png"
    /\ seg_out = NoSegmentation
    /\ slide_pc = "idle"
    /\ shapes = <<>>
    /\ NormaliserIdle
    /\ ParserIdle
    /\ ServiceIdle

\* One round of the loop over image_paths, lines 329-385.  The slide is
\* added before the image is opened; the add_picture calls of the three
\* fallbacks stand in no try, their exception leaves the function.
ProcessImage ==
    /\ batch_pc = "loop"
    /\ batch_i < Len(image_paths)
    /\ batch_i' = batch_i + 1
    /\ LET image == image_paths[batch_i + 1]
           r == AddSlideWithElements(image.kind, image.size, image.seg, fp_under)
       IN  IF image.kind = "missing"
           THEN UNCHANGED <<batch_pc, slides>>
           ELSE IF ImageOpenRaises(image.kind)
           THEN IF AddPictureRaises(image.kind)
                THEN batch_pc' = "aborted" /\ slides' = Append(slides, <<>>)
                ELSE /\ slides' = Append(slides, <<FullSlidePicture>>)
                     /\ UNCHANGED batch_pc
           ELSE IF use_segmentation
           THEN IF ~r.raised
                THEN slides' = Append(slides, r.shapes) /\ UNCHANGED batch_pc
                ELSE IF AddPictureRaises(image.kind)
                THEN batch_pc' = "aborted" /\ slides' = Append(slides, r.shapes)
                ELSE /\ slides' = Append(slides, Append(r.shapes, FullSlidePicture))
                     /\ UNCHANGED batch_pc
           ELSE IF AddPictureRaises(image.kind)
           THEN batch_pc' = "aborted" /\ slides' = Append(slides, <<>>)
           ELSE slides' = Append(slides, <<FullSlidePicture>>) /\ UNCHANGED batch_pc
    /\ UNCHANGED <<image_size, response, rp_vars, bb_vars, slide_vars, image_paths,
                   use_segmentation, parse_vars, svc_vars>>

\* Lines 387-396: the document is saved and returned.
SaveDocument ==
    /\ batch_pc = "loop"
    /\ batch_i = Len(image_paths)
    /\ batch_pc' = "saved"
    /\ UNCHANGED <<image_size, response, rp_vars, bb_vars, slide_vars, image_paths,
                   use_segmentation, batch_i, slides, parse_vars, svc_vars>>

NextBatch == ProcessImage \/ SaveDocument

SpecBatch == InitBatch /\ [][NextBatch]_vars

\* --------------------- ElementSegmentationService._parse_json_response

\* The characters of a text are one-character strings; the backtick, which
\* a TLA+ string cannot hold, is written by name.
Tick == "backtick"
Fence == <<Tick, Tick, Tick>>
StartsWith(chars, prefix) ==
    Len(chars) >= Len(prefix) /\ SubSeq(chars, 1, Len(prefix)) = prefix
EndsWith(chars, suffix) ==
    /\ Len(chars) >= Len(suffix)
    /\ SubSeq(chars, Len(chars) - Len(suffix) + 1, Len(chars)) = suffix
Drop(chars, n) == SubSeq(chars, n + 1, Len(chars))

\* The first place of chars that holds a character of S, Len(chars) + 1
\* when none does.
Upto(chars, S) ==
    IF \E n \in 1..Len(chars) : chars[n] \in S
    THEN CHOOSE n \in 1..Len(chars) :
             chars[n] \in S /\ \A m \in 1..(n - 1) : chars[m] \notin S
    ELSE Len(chars) + 1

\* re.sub(r'^FENCE(?:json)?\s*', '', cleaned, flags=re.MULTILINE), line 231:
\* at the start of the text and after every newline, a fence, "json" if it
\* follows, and the whitespace after them are taken out.  line_start says
\* whether the character before chars is a newline (or there is none); a
\* line that opens with no fence is copied up to its newline.
RECURSIVE SubOpeningFences(_, _)
SubOpeningFences(chars, line_start) ==
    IF chars = <<>> THEN <<>>
    ELSE IF line_start /\ StartsWith(chars, Fence)
    THEN LET after == Drop(chars, 3)
             after_json == IF StartsWith(after, <<"j", "s", "o", "n">>)
                           THEN Drop(after, 4) ELSE after
             rest == LStrip(after_json)
         IN  SubOpeningFences(rest, chars[Len(chars) - Len(rest)] = "\n")
    ELSE LET n == Upto(chars, {"\n"})
         IN  IF n > Len(chars) THEN chars
             ELSE SubSeq(chars, 1, n) \o SubOpeningFences(Drop(chars, n), TRUE)

\* re.sub(r'\s*FENCE$', '', cleaned, flags=re.MULTILINE), line 233: a fence
\* at the end of the text or right before a newline is taken out with the
\* whitespace before it.  A match can only start at whitespace or at a
\* backtick; the characters before the next such place are copied.
RECURSIVE SubClosingFences(_)
SubClosingFences(chars) ==
    IF chars = <<>> THEN <<>>
    ELSE LET body == LStrip(chars)
             n == Upto(chars, {" ", "\n", "\t", Tick})
         IN  IF StartsWith(body, Fence) /\ (Len(body) = 3 \/ body[4] = "\n")
             THEN SubClosingFences(Drop(body, 3))
             ELSE IF n > 1
             THEN SubSeq(chars, 1, n - 1) \o SubClosingFences(Drop(chars, n - 1))
             ELSE <<Head(chars)>> \o SubClosingFences(Tail(chars))

\* Lines 226-233: cleaned when the parsing starts.
Cleaned(text) ==
    LET stripped == Strip(text)
        opened == IF StartsWith(stripped, Fence)
                  THEN SubOpeningFences(stripped, TRUE) ELSE stripped
    IN  IF EndsWith(opened, Fence) THEN SubClosingFences(opened) ELSE opened

\* json.loads on the characters used here: objects, strings without
\* escapes, numbers of the digits 1-9, whitespace between tokens.  A scan
\* gives whether it read a value, of which type, and what is left.
Digits == {"1", "2"}
NoParse == [ok |-> FALSE, ty |-> "none", rest |-> <<>>]

RECURSIVE ScanString(_)
ScanString(chars) ==
    IF chars = <<>> \/ Head(chars) \in {"\n", "\t"} THEN NoParse
    ELSE IF Head(chars) = "\"" THEN [ok |-> TRUE, ty |-> "str", rest |-> Tail(chars)]
    ELSE ScanString(Tail(chars))

RECURSIVE ScanDigits(_)
ScanDigits(chars) ==
    IF chars # <<>> /\ Head(chars) \in Digits THEN ScanDigits(Tail(chars)) ELSE chars

RECURSIVE ScanValue(_)
RECURSIVE ScanMembers(_)

\* After "{" or ",": "key" : value, then "," and more, or "}".
ScanMembers(chars) ==
    LET at_key == LStrip(chars)
        key == IF at_key # <<>> /\ Head(at_key) = "\"" THEN ScanString(Tail(at_key))
               ELSE NoParse
        at_colon == LStrip(key.rest)
        value == IF key.ok /\ at_colon # <<>> /\ Head(at_colon) = ":"
                 THEN ScanValue(LStrip(Tail(at_colon)))
                 ELSE NoParse
        after == LStrip(value.rest)
    IN  IF ~value.ok \/ after = <<>> THEN NoParse
        ELSE IF Head(after) = "}" THEN [ok |-> TRUE, ty |-> "dict", rest |-> Tail(after)]
        ELSE IF Head(after) = "," THEN ScanMembers(Tail(after))
        ELSE NoParse

ScanValue(chars) ==
    IF chars = <<>> THEN NoParse
    ELSE IF Head(chars) = "{"
    THEN LET inside == LStrip(Tail(chars))
         IN  IF inside # <<>> /\ Head(inside) = "}"
             THEN [ok |-> TRUE, ty |-> "dict", rest |-> Tail(inside)]
             ELSE ScanMembers(inside)
    ELSE IF Head(chars) = "\"" THEN ScanString(Tail(chars))
    ELSE IF Head(chars) \in Digits
    THEN [ok |-> TRUE, ty |-> "int", rest |-> ScanDigits(chars)]
    ELSE NoParse

\* json.loads(text): the value, or JSONDecodeError.
JsonLoads(text) ==
    LET scan == ScanValue(LStrip(text))
    IN  IF scan.ok /\ LStrip(scan.rest) = <<>>
        THEN [ok |-> TRUE, value |-> [ty |-> scan.ty, text |-> Strip(text)]]
        ELSE [ok |-> FALSE, value |-> NoValue]

\* re.search(r'\{.*\}', cleaned, re.DOTALL), line 240: from the first "{"
\* to the last "}".
Places(chars, c) == {n \in 1..Len(chars) : chars[n] = c}
Largest(S) == CHOOSE m \in S : \A n \in S : m >= n
HasBraces(chars) ==
    /\ Places(chars, "{") # {}
    /\ Places(chars, "}") # {}
    /\ Smallest(Places(chars, "{")) < Largest(Places(chars, "}"))
BraceSpan(chars) ==
    SubSeq(chars, Smallest(Places(chars, "{")), Largest(Places(chars, "}")))

\* Mutant of Preview: the whole cleaned text.
Preview_Whole(chars) == chars

\* cleaned[:200], line 248.
Preview(chars) ==
    IF Len(chars) <= PreviewLength THEN chars ELSE SubSeq(chars, 1, PreviewLength)

\* _parse_json_response as a whole.
ParseJsonResponse(text) ==
    LET c == Cleaned(text)
        direct == JsonLoads(c)
        span == IF HasBraces(c) THEN JsonLoads(BraceSpan(c))
                ELSE [ok |-> FALSE, value |-> NoValue]
    IN  IF direct.ok THEN [raised |-> FALSE, cleaned |-> c, value |-> direct.value,
                           message |-> <<>>]
        ELSE IF span.ok THEN [raised |-> FALSE, cleaned |-> c, value |-> span.value,
                              message |-> <<>>]
        ELSE [raised |-> TRUE, cleaned |-> c, value |-> NoValue,
              message |-> <<"Failed to parse JSON from response: ">> \o Preview(c)]

\* The pieces a response is put together from: fences, an object, an
\* object cut short, a closing brace, a number, prose, blank lines, and
\* prose longer than the preview.
Fragments ==
    { Fence \o <<"j", "s", "o", "n", "\n">>,
      Fence,
      <<"\n">> \o Fence,
      <<"{", "\"", "a", "\"", ":", " ", "1", "}">>,
      <<"{", "\"", "a", "\"", ":">>,
      <<"}">>,
      <<"1">>,
      <<"x", " ">>,
      <<" ", "\n">>,
      [n \in 1..(PreviewLength + 1) |-> "x"] }

RECURSIVE Joined(_)
Joined(parts) == IF parts = <<>> THEN <<>> ELSE Head(parts) \o Joined(Tail(parts))

InitParse ==
    /\ \E n \in 0..MaxParts : \E parts \in [1..n -> Fragments] :
           response_text = Joined(parts)
    /\ cleaned = <<>>
    /\ parse_pc = "start"
    /\ parse_result = NoValue
    /\ parse_error = <<>>
    /\ image_size = <<1000, 600>>
    /\ NormaliserIdle
    /\ SlideIdle
    /\ BatchIdle
    /\ ServiceIdle

Parse ==
    /\ parse_pc = "start"
    /\ LET r == ParseJsonResponse(response_text)
       IN  /\ parse_pc' = IF r.raised THEN "raised" ELSE "returned"
           /\ cleaned' = r.cleaned
           /\ parse_result' = r.value
           /\ parse_error' = r.message
    /\ UNCHANGED <<image_size, response, rp_vars, bb_vars, slide_vars, batch_vars,
                   response_text, svc_vars>>

NextParse == Parse

SpecParse == InitParse /\ [][NextParse]_vars

\* ------------------------------- ElementSegmentationService, one image

\* _get_provider_config() of services.ai_providers: the provider format
\* and the api key of that provider.
GetProviderConfig(config) ==
    [format |-> config.format,
     api_key |-> IF config.format = "openai" THEN config.openai_key
                 ELSE config.google_key]

\* ElementSegmentationService.__init__, lines 32-56: a or b is b when a is
\* not set.
ServiceInit(config) ==
    LET pc == GetProviderConfig(config)
        api_key == IF pc.format = "openai" /\ config.google_key # NoKey
                   THEN config.google_key
                   ELSE pc.api_key
    IN  IF api_key = NoKey
        THEN [raised |-> TRUE, client |-> NoKey,
              error |-> [type |-> "ValueError",
                         message |-> <<"GOOGLE_API_KEY is required for Vision API">>]]
        ELSE [raised |-> FALSE, client |-> api_key, error |-> NoError]

\* The two prompts of SegmentationPromptManager, by name.
DefaultPrompt == "default_prompt"
ComplexBackgroundPrompt == "complex_background_prompt"

\* A member of the enumeration BackgroundType, by its value.
BackgroundType(value) == [enum |-> "BackgroundType", value |-> value]

\* SegmentationPromptManager.get_prompt.
GetPrompt(background_type) ==
    IF \/ background_type = BackgroundType("textured")
       \/ background_type = BackgroundType("complex")
    THEN ComplexBackgroundPrompt
    ELSE DefaultPrompt

\* ElementSegmentationService._get_segmentation_prompt: one fixed text, the
\* same characters as get_default_prompt returns.
GetSegmentationPrompt == DefaultPrompt

\* BackgroundHandler.detect_background_type, lines 90-98.
DetectBackgroundType(color_variance, local_variance) ==
    IF color_variance < 100 /\ local_variance < 500 THEN "simple"
    ELSE IF color_variance > 5000 \/ local_variance > 10000 THEN "textured"
    ELSE IF color_variance > 1000 THEN "gradient"
    ELSE "complex"

\* Mutant of ErrorDetail: the message without the type of the error.
ErrorDetail_MessageOnly(type, message) ==
    <<"Vision API call failed: ">> \o message

\* error_detail, line 146.
ErrorDetail(type, message) ==
    <<"Vision API call failed: ", type, ": ">> \o message

\* The name Python gives the type of a parsed value.
TypeName(ty) == IF ty = "int" THEN "int" ELSE IF ty = "str" THEN "str" ELSE ty

\* _identify_elements_with_vision after the call, lines 131-148: what it
\* raises, or the value it returns.
IdentifyElements(outcome) ==
    LET parse == ParseJsonResponse(outcome.text)
        wrapped(type, message) ==
            [raised |-> TRUE, value |-> NoValue,
             error |-> [type |-> "Exception", message |-> ErrorDetail(type, message)]]
    IN  IF outcome.kind = "error" THEN wrapped(outcome.type, outcome.message)
        ELSE IF outcome.text = <<>>
        THEN wrapped("ValueError", <<"Vision API returned empty response">>)
        ELSE IF parse.raised THEN wrapped("ValueError", parse.message)
        ELSE IF parse.value.ty # "dict"
        THEN wrapped("AttributeError",
                     <<"'", TypeName(parse.value.ty), "' object has no attribute 'get'">>)
        ELSE [raised |-> FALSE, value |-> parse.value, error |-> NoError]

\* The dict of a parsed object: the objects of ServiceTexts are {"a": 1}.
DictOf(value) == [a |-> PyInt(1)]

\* The service's _validate_and_clean_elements, lines 262-293.
SvcValidateAndClean(info, image_width, image_height) ==
    LET t == SvcValidateList(Get(info, "text_elements", <<>>), image_width, image_height)
        i == SvcValidateList(Get(info, "icons", <<>>), image_width, image_height)
        c == SvcValidateList(Get(info, "charts", <<>>), image_width, image_height)
    IN  [raised |-> t.raised \/ i.raised \/ c.raised,
         validated |->
             [text_elements |-> t.validated, icons |-> i.validated,
              charts |-> c.validated,
              background_info |-> Get(info, "background_info", PyDict(<<>>))]]

\* The configurations, the images and the answers of the vision service.
ProviderConfigs ==
    [format : {"gemini", "openai"}, openai_key : {NoKey, "openai-key"},
     google_key : {NoKey, "google-key"}]
ImageStats ==
    [color_variance : {0, 100, 1001, 5001}, local_variance : {0, 500, 10001}]
Object == <<"{", "\"", "a", "\"", ":", " ", "1", "}">>
ServiceTexts ==
    { <<>>, <<"1">>, Object,
      Fence \o <<"j", "s", "o", "n", "\n">> \o Object \o <<"\n">> \o Fence,
      <<"x", " ">> \o Object,
      <<"{", "\"", "a", "\"", ":">>,
      <<"x", " ">>,
      <<"\"", "a", "\"">> }
VisionOutcomes ==
    { [kind |-> "error", type |-> "ServerError", text |-> <<>>,
       message |-> <<"503 UNAVAILABLE">>],
      [kind |-> "error", type |-> "ValueError", text |-> <<>>,
       message |-> <<"invalid argument">>] }
    \cup { [kind |-> "text", type |-> "none", text |-> t, message |-> <<>>] :
             t \in ServiceTexts }

InitService ==
    /\ provider_config \in ProviderConfigs
    /\ image_stats \in ImageStats
    /\ vision \in VisionOutcomes
    /\ client = NoKey
    /\ svc_pc = "new"
    /\ prompt = "none"
    /\ calls = 0
    /\ svc_info = NoValue
    /\ normalized = FALSE
    /\ svc_error = NoError
    /\ svc_result = EmptyLists
    /\ image_size = <<1000, 600>>
    /\ NormaliserIdle
    /\ SlideIdle
    /\ BatchIdle
    /\ ParserIdle

\* create_pptx_with_segmented_elements, lines 311-319: the service is
\* built before the loop; when that raises, use_segmentation is False.
Construct ==
    /\ svc_pc = "new"
    /\ LET r == ServiceInit(provider_config)
       IN  /\ client' = r.client
           /\ svc_pc' = IF r.raised THEN "no_service" ELSE "ready"
           /\ svc_error' = r.error
    /\ UNCHANGED <<image_size, response, rp_vars, bb_vars, slide_vars, batch_vars,
                   parse_vars, provider_config, image_stats, prompt, vision, calls,
                   svc_info, normalized, svc_result>>

\* segment_image up to the call, lines 87-119: the image is loaded and the
\* prompt is taken.
TakePrompt ==
    /\ svc_pc = "ready"
    /\ prompt' = GetSegmentationPrompt
    /\ svc_pc' = "prompted"
    /\ UNCHANGED <<image_size, response, rp_vars, bb_vars, slide_vars, batch_vars,
                   parse_vars, provider_config, image_stats, client, vision, calls,
                   svc_info, normalized, svc_error, svc_result>>

\* self.client.models.generate_content, lines 123-130.
CallVision ==
    /\ svc_pc = "prompted"
    /\ calls' = calls + 1
    /\ svc_pc' = "answered"
    /\ UNCHANGED <<image_size, response, rp_vars, bb_vars, slide_vars, batch_vars,
                   parse_vars, provider_config, image_stats, client, prompt, vision,
                   svc_info, normalized, svc_error, svc_result>>

\* Lines 131-148: the answer is parsed, or the error is wrapped and raised
\* through segment_image.
HandleResponse ==
    /\ svc_pc = "answered"
    /\ LET r == IdentifyElements(vision)
       IN  /\ svc_pc' = IF r.raised THEN "raised" ELSE "identified"
           /\ svc_info' = r.value
           /\ svc_error' = r.error
    /\ UNCHANGED <<image_size, response, rp_vars, bb_vars, slide_vars, batch_vars,
                   parse_vars, provider_config, image_stats, client, prompt, vision,
                   calls, normalized, svc_result>>

\* segment_image, lines 99-104.
ValidateAndClean ==
    /\ svc_pc = "identified"
    /\ LET r == SvcValidateAndClean(DictOf(svc_info), image_size[1], image_size[2])
       IN  /\ normalized' = TRUE
           /\ svc_pc' = IF r.raised THEN "raised" ELSE "returned"
           /\ svc_result' = r.validated
           /\ svc_error' = IF r.raised
                           THEN [type |-> "TypeError", message |-> <<>>]
                           ELSE NoError
    /\ UNCHANGED <<image_size, response, rp_vars, bb_vars, slide_vars, batch_vars,
                   parse_vars, provider_config, image_stats, client, prompt, vision,
                   calls, svc_info>>

\* create_pptx_with_segmented_elements, lines 353-385: the slide of the
\* image, from the elements, or the whole image when segment_image raised
\* or there is no service.
PlaceSlide ==
    /\ svc_pc \in {"no_service", "raised", "returned"}
    /\ svc_pc' = "placed"
    /\ shapes' =
           IF svc_pc = "returned"
           THEN AddSlideWithElements(
                    image_kind, image_size,
                    [raises |-> FALSE, elements_info |-> svc_result], fp_under).shapes
           ELSE <<FullSlidePicture>>
    /\ UNCHANGED <<image_size, response, rp_vars, bb_vars, image_kind, seg_out, fp_under,
                   slide_pc, batch_vars, parse_vars, provider_config, image_stats,
                   client, prompt, vision, calls, svc_info, normalized, svc_error,
                   svc_result>>

NextService ==
    \/ Construct
    \/ TakePrompt
    \/ CallVision
    \/ HandleResponse
    \/ ValidateAndClean
    \/ PlaceSlide

SpecService == InitService /\ [][NextService]_vars

\* ====================================================== single bbox claims

\* The bbox the detector gave, as four floats (when each entry converts).
FloatsOf(bbox) ==
    List(<<PyFloat(bbox.items[1]), PyFloat(bbox.items[2]),
           PyFloat(bbox.items[3]), PyFloat(bbox.items[4])>>)

Checked == bb_valid \in {"True", "False", "KeyError"}

FourNumbers(bbox) ==
    bbox.t = "list" /\ Len(bbox.items) = 4 /\ \A n \in 1..4 : bbox.items[n].k = "num"

\* C3 as stated: the bbox is accepted if and only if it is four numbers
\* with w > 0, h > 0, x >= -10, y >= -10, x + w <= W + 10, y + h <= H + 10.
C3_AcceptsIffFourNumbersInBounds ==
    Checked =>
        ( bb_valid = "True" <=>
            /\ FourNumbers(bb_in)
            /\ bb_in.items[3].v > 0
            /\ bb_in.items[4].v > 0
            /\ bb_in.items[1].v >= px(-10)
            /\ bb_in.items[2].v >= px(-10)
            /\ bb_in.items[1].v + bb_in.items[3].v <= px(image_size[1] + 10)
            /\ bb_in.items[2].v + bb_in.items[4].v <= px(image_size[2] + 10) )

\* One of the comparisons that reject holds of the floats a, b (NaN makes
\* every comparison false).
Below(a, bound) == a.k = "num" /\ a.v < bound
NotAbove(a, bound) == a.k = "num" /\ a.v <= bound
EdgeBeyond(a, b, bound) == a.k = "num" /\ b.k = "num" /\ a.v + b.v > bound

\* C3, amended: the bbox is accepted if and only if it is a list (or a
\* string) of exactly 4 entries that float() converts (numbers, NaN, numeric
\* strings) and, of the converted x, y, w, h, none of w <= 0, h <= 0,
\* x < -10, y < -10, x + w > W + 10, y + h > H + 10 holds; every bbox of
\* four numbers with w <= 0 or h <= 0, or with x + w > W + 10 or
\* y + h > H + 10, is rejected.
C3_AcceptsIffConvertibleAndNoRejection ==
    Checked =>
        /\ ( bb_valid = "True" <=>
               /\ bb_in.t \in {"list", "string"}
               /\ Len(bb_in.items) = 4
               /\ \A n \in 1..4 : bb_in.items[n].k \in {"num", "str", "nan"}
               /\ LET b == FloatsOf(bb_in).items
                  IN  /\ ~NotAbove(b[3], 0)
                      /\ ~NotAbove(b[4], 0)
                      /\ ~Below(b[1], px(-10))
                      /\ ~Below(b[2], px(-10))
                      /\ ~EdgeBeyond(b[1], b[3], px(image_size[1] + 10))
                      /\ ~EdgeBeyond(b[2], b[4], px(image_size[2] + 10)) )
        /\ ( /\ FourNumbers(bb_in)
             /\ \/ bb_in.items[3].v <= 0
                \/ bb_in.items[4].v <= 0
                \/ bb_in.items[1].v + bb_in.items[3].v > px(image_size[1] + 10)
                \/ bb_in.items[2].v + bb_in.items[4].v > px(image_size[2] + 10)
             => bb_valid = "False" )

\* C3's case: a bbox of numeric strings was accepted, a bbox with its right
\* edge exactly on W + 10 too.
C3_Witness ==
    /\ bb_valid = "True"
    /\ bb_in.t = "list"
    /\ bb_in.items[3].k = "num"
    /\ bb_in.items[1].k = "num"
    /\ bb_in.items[1].v + bb_in.items[3].v = px(image_size[1] + 10)
    /\ bb_in.items[2].k = "str"

\* A bbox of four numbers with w > 0, h > 0 that lies fully inside the image.
FullyInside(bbox) ==
    /\ FourNumbers(bbox)
    /\ bbox.items[3].v > 0
    /\ bbox.items[4].v > 0
    /\ bbox.items[1].v >= 0
    /\ bbox.items[2].v >= 0
    /\ bbox.items[1].v + bbox.items[3].v <= px(image_size[1])
    /\ bbox.items[2].v + bbox.items[4].v <= px(image_size[2])

\* C4 as stated: a bbox with w > 0, h > 0 fully inside the image is accepted
\* and clamping returns the same four values.
C4_InsideIsAcceptedAndUnchanged ==
    FullyInside(bb_in) =>
        /\ Checked => bb_valid = "True"
        /\ bb_clamps >= 1 => bb_cur = bb_in

\* C4, amended: a bbox with w >= 1, h >= 1 fully inside the image is
\* accepted and clamping returns the same four values.
C4_InsideAtLeastOnePixelUnchanged ==
    (FullyInside(bb_in) /\ bb_in.items[3].v >= px(1) /\ bb_in.items[4].v >= px(1)) =>
        /\ Checked => bb_valid = "True"
        /\ bb_clamps >= 1 => bb_cur = bb_in

\* C4's case: such a bbox, touching the right and bottom edge, was clamped.
C4_Witness ==
    /\ FullyInside(bb_in)
    /\ bb_in.items[3].v >= px(1)
    /\ bb_in.items[4].v >= px(1)
    /\ bb_in.items[1].v + bb_in.items[3].v = px(image_size[1])
    /\ bb_in.items[2].v + bb_in.items[4].v = px(image_size[2])
    /\ bb_in.items[1].v > 0
    /\ bb_clamps >= 1
    /\ bb_cur = bb_in

\* C5: clamping a bbox that was already clamped leaves it as it is.
C5_ClampIdempotent ==
    [][(bb_clamps >= 1 /\ bb_clamps' = bb_clamps + 1) => bb_cur' = bb_cur]_vars

\* C5's case: a bbox the first clamping changed has been clamped twice.
C5_Witness ==
    /\ bb_clamps >= 2
    /\ FourNumbers(bb_in)
    /\ bb_cur # bb_in

\* ======================================================= normaliser claims

Ids(list) == {list[i].id : i \in 1..Len(list)}

\* Geometry of two elements whose bboxes are four floats, on the grid.
ElemArea(e) == e.bbox.items[3].v * e.bbox.items[4].v
Span(a1, l1, a2, l2) == Max2(0, Min2(a1 + l1, a2 + l2) - Max2(a1, a2))
Intersection(e, f) ==
    Span(e.bbox.items[1].v, e.bbox.items[3].v, f.bbox.items[1].v, f.bbox.items[3].v)
    * Span(e.bbox.items[2].v, e.bbox.items[4].v, f.bbox.items[2].v, f.bbox.items[4].v)
UnionArea(e, f) == ElemArea(e) + ElemArea(f) - Intersection(e, f)
\* IoU(e, f) > 0.7
OverSeventy(e, f) == 10 * Intersection(e, f) > 7 * UnionArea(e, f)

\* C1 as stated: what segment_image returns for a parsed response and image
\* size is what ResultProcessor.validate_and_clean_elements returns for them.
C1_SegmentImageReturnsNormalized ==
    (seg_pc = "returned" /\ rp_pc = "returned") => seg_result = returned

\* C2: every bbox in the lists the normaliser returns has 0 <= x <= W-1,
\* 0 <= y <= H-1, x + w <= W, y + h <= H, w >= 1 and h >= 1.
C2_ReturnedBBoxesInsideImage ==
    rp_pc = "returned" =>
        \A c \in Categories : \A i \in 1..Len(returned[c]) :
            LET b == returned[c][i].bbox.items
            IN  /\ Len(b) = 4
                /\ \A n \in 1..4 : b[n].k = "num"
                /\ 0 <= b[1].v /\ b[1].v <= px(image_size[1] - 1)
                /\ 0 <= b[2].v /\ b[2].v <= px(image_size[2] - 1)
                /\ b[1].v + b[3].v <= px(image_size[1])
                /\ b[2].v + b[4].v <= px(image_size[2])
                /\ b[3].v >= px(1)
                /\ b[4].v >= px(1)

\* C2's case: a returned element whose bbox, four numbers from the detector,
\* reached over the image and was changed by clamping.
C2_Witness ==
    /\ rp_pc = "returned"
    /\ \E c \in Categories : \E i \in 1..Len(returned[c]) :
         LET raw == response[c][returned[c][i].id].bbox
         IN  /\ FourNumbers(raw)
             /\ \/ raw.items[1].v < 0
                \/ raw.items[1].v + raw.items[3].v > px(image_size[1])
             /\ returned[c][i].bbox # raw

\* C6: an element that passed validation and clamping is kept by the area
\* filter if and only if its area is at least 100 (text), 200 (icon),
\* 500 (chart) pixels^2.
C6_AreaFilterKeepsIffAtThreshold ==
    rp_pc \in {"filtered", "returned"} =>
        /\ \A i \in 1..Len(validated.text_elements) :
             validated.text_elements[i].id \in Ids(filtered.text_elements)
             <=> ElemArea(validated.text_elements[i]) >= px2(100)
        /\ \A i \in 1..Len(validated.icons) :
             validated.icons[i].id \in Ids(filtered.icons)
             <=> ElemArea(validated.icons[i]) >= px2(200)
        /\ \A i \in 1..Len(validated.charts) :
             validated.charts[i].id \in Ids(filtered.charts)
             <=> ElemArea(validated.charts[i]) >= px2(500)

\* C6's case: a text element of area exactly 100 and a chart of area exactly
\* 500 were kept, an icon of area 199 was dropped.
C6_Witness ==
    /\ rp_pc = "filtered"
    /\ \E i \in 1..Len(filtered.text_elements) :
         ElemArea(filtered.text_elements[i]) = px2(100)
    /\ \E i \in 1..Len(filtered.charts) :
         ElemArea(filtered.charts[i]) = px2(500)
    /\ \E i \in 1..Len(validated.icons) :
         /\ ElemArea(validated.icons[i]) = px2(199)
         /\ validated.icons[i].id \notin Ids(filtered.icons)

\* C7: no two distinct elements of a returned list have IoU > 0.7.
C7_NoTwoReturnedOverlap ==
    rp_pc = "returned" =>
        \A c \in Categories : \A i, j \in 1..Len(returned[c]) :
            i # j => ~OverSeventy(returned[c][i], returned[c][j])

\* C7's case: a list from which deduplication dropped an element and kept
\* two that overlap.
C7_Witness ==
    /\ rp_pc = "returned"
    /\ \E c \in Categories :
         /\ Len(filtered[c]) > Len(returned[c])
         /\ \E i, j \in 1..Len(returned[c]) :
              i # j /\ Intersection(returned[c][i], returned[c][j]) > 0

\* C8 as stated: of two elements that reach deduplication with IoU > 0.7,
\* the one of smaller area is dropped, whatever else is in the list.
C8_SmallerOfOverlappingPairDropped ==
    rp_pc = "returned" =>
        \A c \in Categories : \A i, j \in 1..Len(filtered[c]) :
            ( /\ OverSeventy(filtered[c][i], filtered[c][j])
              /\ ElemArea(filtered[c][i]) < ElemArea(filtered[c][j]) )
            => filtered[c][i].id \notin Ids(returned[c])

\* No other element of at least e's area has IoU > 0.7 with the element at j.
NoLargerOverlapper(list, j) ==
    \A k \in 1..Len(list) :
        (k # j /\ ElemArea(list[k]) >= ElemArea(list[j])) => ~OverSeventy(list[j], list[k])

\* C8, amended: of two elements that reach deduplication with IoU > 0.7, the
\* one of smaller area is dropped provided the larger one is kept, which it
\* is whenever no other element of at least its area has IoU > 0.7 with it.
C8_SmallerDroppedWhenLargerKept ==
    rp_pc = "returned" =>
        \A c \in Categories : \A i, j \in 1..Len(filtered[c]) :
            ( /\ OverSeventy(filtered[c][i], filtered[c][j])
              /\ ElemArea(filtered[c][i]) < ElemArea(filtered[c][j])
              /\ \/ filtered[c][j].id \in Ids(returned[c])
                 \/ NoLargerOverlapper(filtered[c], j) )
            => /\ filtered[c][i].id \notin Ids(returned[c])
               /\ filtered[c][j].id \in Ids(returned[c])

\* C8's case: three elements reached deduplication; of an overlapping pair
\* the larger was kept and the smaller dropped.
C8_Witness ==
    /\ rp_pc = "returned"
    /\ \E c \in Categories : \E i, j \in 1..Len(filtered[c]) :
         /\ Len(filtered[c]) >= 3
         /\ OverSeventy(filtered[c][i], filtered[c][j])
         /\ ElemArea(filtered[c][i]) < ElemArea(filtered[c][j])
         /\ filtered[c][j].id \in Ids(returned[c])
         /\ filtered[c][i].id \notin Ids(returned[c])

\* C9: an element that reaches deduplication and has IoU <= 0.7 with every
\* other element of its category is in the deduplicated output.
C9_NonOverlappingElementKept ==
    rp_pc = "returned" =>
        \A c \in Categories : \A i \in 1..Len(filtered[c]) :
            (\A j \in 1..Len(filtered[c]) :
                 j # i => ~OverSeventy(filtered[c][i], filtered[c][j]))
            => filtered[c][i].id \in Ids(returned[c])

\* C9's case: two elements of IoU exactly 0.7 and an element disjoint from
\* both reached deduplication, and all were kept.
C9_Witness ==
    /\ rp_pc = "returned"
    /\ \E c \in Categories : \E i, j \in 1..Len(filtered[c]) :
         /\ i # j
         /\ 10 * Intersection(filtered[c][i], filtered[c][j])
              = 7 * UnionArea(filtered[c][i], filtered[c][j])
         /\ filtered[c][i].id \in Ids(returned[c])
         /\ filtered[c][j].id \in Ids(returned[c])
    /\ \E c \in Categories : \E i, j \in 1..Len(filtered[c]) :
         /\ i # j
         /\ Intersection(filtered[c][i], filtered[c][j]) = 0
         /\ filtered[c][i].id \in Ids(returned[c])
         /\ filtered[c][j].id \in Ids(returned[c])

\* C10 as stated: the elements of each returned list are in the order of
\* the detector's list.
C10_ReturnedInInsertionOrder ==
    rp_pc = "returned" =>
        \A c \in Categories : \A p, q \in 1..Len(returned[c]) :
            p < q => returned[c][p].id < returned[c][q].id

\* C10, amended: the elements of each returned list are in order of
\* non-increasing bbox area, and elements of equal area are in the order of
\* the detector's list.
C10_ReturnedByAreaThenInsertionOrder ==
    rp_pc = "returned" =>
        \A c \in Categories : \A p, q \in 1..Len(returned[c]) :
            p < q =>
                \/ ElemArea(returned[c][p]) > ElemArea(returned[c][q])
                \/ /\ ElemArea(returned[c][p]) = ElemArea(returned[c][q])
                   /\ returned[c][p].id < returned[c][q].id

\* C10's case: a returned list of three elements, two of equal area in the
\* detector's order behind a larger one the detector reported after them.
C10_Witness ==
    /\ rp_pc = "returned"
    /\ \E c \in Categories :
         /\ Len(returned[c]) = 3
         /\ returned[c][1].id > returned[c][2].id
         /\ ElemArea(returned[c][2]) = ElemArea(returned[c][3])
         /\ returned[c][2].id < returned[c][3].id

\* ================================================ claims on raw records

\* C11: for a top-level mapping, validate_and_clean_elements never raises
\* because of one record: a record with a bad, too small or duplicate bbox
\* is left out and the call still returns.  Every response of Responses is
\* a mapping whose lists hold records, so every raise is one record's.
C11_NeverRaisesOnElementIssue ==
    rp_pc # "raised"

\* The raw records of a category, and whether each of them is under the
\* category's threshold (RecordBoxes and the icon and chart boxes are
\* lists of four numbers).
Raw(category) == Get(response, category, <<>>)
AllTooSmall ==
    \A c \in Categories :
        \A i \in 1..Len(Raw(c)) : ElemArea(Raw(c)[i]) < px2(MinArea(c))

\* C12: the output always has text_elements, icons and charts bound to
\* lists and background_info bound to an object; a key missing from the
\* input behaves as an empty list / empty object; when every element of
\* the three categories is dropped the result is the structure with three
\* empty lists, not an error.
C12_OutputAlwaysWellFormed ==
    /\ rp_pc = "returned" =>
          /\ Categories \cup {"background_info"} \subseteq DOMAIN returned
          /\ returned.background_info.ty = "dict"
          /\ \A c \in Categories : c \notin DOMAIN response => returned[c] = <<>>
          /\ "background_info" \notin DOMAIN response =>
                 returned.background_info = PyDict(<<>>)
    /\ AllTooSmall =>
          /\ rp_pc # "raised"
          /\ rp_pc = "returned" => \A c \in Categories : returned[c] = <<>>

\* The record e has the keys of the raw record and, but for bbox, their
\* values.
SameButBBox(e, raw) ==
    /\ DOMAIN e = DOMAIN raw
    /\ \A key \in DOMAIN e \ {"bbox"} : e[key] = raw[key]

\* C13: normalization changes nothing but bounding boxes: every element of
\* the output has its non-bbox fields equal to those of the raw record it
\* came from, every output list holds only records of the same-named input
\* list, and background_info is returned equal to the input's (the empty
\* object when the input has none).
C13_OnlyBBoxesChange ==
    rp_pc = "returned" =>
        /\ \A c \in Categories :
             \A k \in 1..Len(returned[c]) :
                \E i \in 1..Len(Raw(c)) :
                    /\ Raw(c)[i].id = returned[c][k].id
                    /\ SameButBBox(returned[c][k], Raw(c)[i])
        /\ returned.background_info = Get(response, "background_info", PyDict(<<>>))

\* A returned text record with text and font size whose bbox was clamped,
\* next to a returned icon, under a background_info of the input.
C13_Witness ==
    /\ rp_pc = "returned"
    /\ "background_info" \in DOMAIN response
    /\ response.background_info.ty = "dict"
    /\ Len(returned.icons) = 1
    /\ \E k \in 1..Len(returned.text_elements) :
          LET e == returned.text_elements[k]
          IN  /\ {"text", "font_size", "font_weight"} \subseteq DOMAIN e
              /\ e.bbox # Raw("text_elements")[e.id].bbox

\* ==================================================== claims on one slide

\* The elements segment_image returned for the slide, and the one of a
\* given id.
SlideElements ==
    LET d == seg_out.elements_info
    IN  d.text_elements \o d.icons \o d.charts
RawOf(id) ==
    LET i == CHOOSE j \in 1..Len(SlideElements) : SlideElements[j].id = id
    IN  SlideElements[i]

\* The shapes placed for elements (every shape but the background).
ElementShapes == {k \in 1..Len(shapes) : "id" \in DOMAIN shapes[k]}

\* got is exactly val * slide_dim / image_dim EMU.
ExactlyScaled(val, got, slide_dim, image_dim) ==
    /\ val.k = "num"
    /\ Integral(val.v, slide_dim, Scale * image_dim)
    /\ got = Quotient(val.v, slide_dim, Scale * image_dim)

\* got is val * slide_dim / image_dim EMU cut to a whole EMU: never above
\* the product and at most one EMU below it.
ScaledToWholeEmu(val, got, slide_dim, image_dim) ==
    IF val.k = "tiny" THEN got = 0
    ELSE /\ val.k = "num"
         /\ got <= Quotient(val.v, slide_dim, Scale * image_dim)
         /\ IF Integral(val.v, slide_dim, Scale * image_dim)
            THEN got >= Quotient(val.v, slide_dim, Scale * image_dim) - 1
            ELSE got >= Quotient(val.v, slide_dim, Scale * image_dim)

\* C14 as stated: every placed shape has left = x * scale_x, top = y *
\* scale_y, width' = width * scale_x, height' = height * scale_y with
\* scale_x = slide width / image width and scale_y = slide height / image
\* height; image 1000 x 600 maps box [100,100,200,100] to 1.0, 0.9375, 2.0,
\* 0.9375 inches.
C14_PlacedExactlyScaled ==
    \A k \in ElementShapes :
        LET bbox == RawOf(shapes[k].id).bbox.items
        IN  /\ ExactlyScaled(bbox[1], shapes[k].left, slide_width, image_size[1])
            /\ ExactlyScaled(bbox[2], shapes[k].top, slide_height, image_size[2])
            /\ ExactlyScaled(bbox[3], shapes[k].width, slide_width, image_size[1])
            /\ ExactlyScaled(bbox[4], shapes[k].height, slide_height, image_size[2])

\* C14, amended: every placed shape has left, top, width and height equal
\* to x * scale_x, y * scale_y, width * scale_x, height * scale_y cut to a
\* whole EMU (never above the product, at most one EMU below it), each
\* axis with its own scale; for image 1000 x 600 and box [100,100,200,100]
\* that is 1.0, 0.9375, 2.0, 0.9375 inches to within one EMU.
C14_PlacedScaledToWholeEmu ==
    \A k \in ElementShapes :
        LET bbox == RawOf(shapes[k].id).bbox.items
        IN  /\ ScaledToWholeEmu(bbox[1], shapes[k].left, slide_width, image_size[1])
            /\ ScaledToWholeEmu(bbox[2], shapes[k].top, slide_height, image_size[2])
            /\ ScaledToWholeEmu(bbox[3], shapes[k].width, slide_width, image_size[1])
            /\ ScaledToWholeEmu(bbox[4], shapes[k].height, slide_height, image_size[2])
            /\ (image_size = <<1000, 600>>
                /\ RawOf(shapes[k].id).bbox = Box(100, 100, 200, 100)) =>
                   /\ shapes[k].left \in {EMU_PER_INCH - 1, EMU_PER_INCH}
                   /\ shapes[k].top \in {(15 * EMU_PER_INCH) \div 16 - 1,
                                         (15 * EMU_PER_INCH) \div 16}
                   /\ shapes[k].width \in {2 * EMU_PER_INCH - 1, 2 * EMU_PER_INCH}
                   /\ shapes[k].height \in {(15 * EMU_PER_INCH) \div 16 - 1,
                                            (15 * EMU_PER_INCH) \div 16}

\* On the 1000 x 600 image, a text box for the box [100,100,200,100], one
\* for the box at y = 101 (865822.5 EMU cut to 865822) and a picture, all
\* placed.
C14_Witness ==
    /\ slide_pc = "done"
    /\ image_size = <<1000, 600>>
    /\ \E k \in ElementShapes :
          /\ shapes[k].shape = "textbox"
          /\ RawOf(shapes[k].id).bbox = Box(100, 100, 200, 100)
          /\ shapes[k].left = EMU_PER_INCH
          /\ shapes[k].top = (15 * EMU_PER_INCH) \div 16
    /\ \E k \in ElementShapes : shapes[k].shape = "textbox" /\ shapes[k].top = 865822
    /\ \E k \in ElementShapes : shapes[k].shape = "picture"

\* pixel_font_size * (5.625 / image_height) * 72 rounded to the nearest
\* integer; 5.625 * 72 is 405.
NearestPoints(pixel_font_size, image_height) ==
    (2 * pixel_font_size * 405 + image_height) \div (2 * image_height)

\* C15: for every text element the point size set on the text box is
\* pixel_font_size * (canvas height in inches / image height) * 72 rounded
\* to the nearest integer; it depends on the vertical scale only; 24 px on
\* a 600 px tall image gives 16.
C15_FontSizeRoundedToNearest ==
    \A k \in ElementShapes :
        (shapes[k].shape = "textbox" /\ shapes[k].font.set) =>
            LET raw == RawOf(shapes[k].id)
                pixel_font_size == Get(raw, "font_size", PyInt(18)).s[1]
            IN  /\ shapes[k].font.pt = NearestPoints(pixel_font_size, image_size[2])
                /\ (pixel_font_size = 24 /\ image_size[2] = 600) => shapes[k].font.pt = 16

\* C16: every text box and every icon/chart picture placed on a slide has
\* width and height of at least 1 document unit (EMU): a dimension that
\* would come out zero or negative is raised to the minimum visible size.
C16_PlacedAtLeastOneUnit ==
    \A k \in ElementShapes : shapes[k].width >= 1 /\ shapes[k].height >= 1

\* The raw text elements with every text replaced by a word, and the ids
\* of those that the normaliser then returns: the elements whose bbox
\* passes validation, area filter and deduplication.
Reworded(elements) ==
    [i \in 1..Len(elements) |->
        IF "text" \in DOMAIN elements[i] THEN [elements[i] EXCEPT !.text = Hi]
        ELSE elements[i]]
SurvivesByBBox ==
    Ids(DeduplicateElements(
            FilterSmallElements(
                ValidateElements(Reworded(Raw("text_elements")),
                                 image_size[1], image_size[2]).validated,
                min_text_area)))

\* The first half of C19, on the normaliser: a text element whose text is
\* empty is returned whenever its bbox passes validation, area filter and
\* deduplication.
EmptyTextSurvivesNormalization ==
    rp_pc = "returned" =>
        \A i \in 1..Len(Raw("text_elements")) :
            LET e == Raw("text_elements")[i]
            IN  ("text" \in DOMAIN e /\ e.text = PyStr(<<>>) /\ e.id \in SurvivesByBBox)
                    => e.id \in Ids(returned.text_elements)

\* The text boxes on the slide, by the ids of their elements.
TextBoxIds == {shapes[k].id : k \in {n \in ElementShapes : shapes[n].shape = "textbox"}}

\* C19: a text element whose text is empty is never dropped by
\* normalization because of its text; at synthesis time no text box is
\* created for a text element whose text is empty or only whitespace
\* (or missing), and text boxes are created for all other text elements
\* that segment_image returned.
C19_TextBoxIffTextNotBlank ==
    /\ EmptyTextSurvivesNormalization
    /\ slide_pc \in {"texts", "done"} =>
          \A i \in 1..Len(seg_out.elements_info.text_elements) :
              LET e == seg_out.elements_info.text_elements[i]
                  text == Get(e, "text", PyStr(<<>>))
              IN  text.ty = "str" =>
                      (e.id \in TextBoxIds <=> \E n \in 1..Len(text.s) : ~IsSpace(text.s[n]))

\* ==================================================== claims on the batch

\* The slide of the j-th path: paths with no file get no slide.
SlideOf(j) == Cardinality({i \in 1..j : image_paths[i].kind # "missing"})

\* An element whose bbox cannot be mapped (an entry is no number).
Unmappable(elem) == \E n \in 1..4 : elem.bbox.items[n].k # "num"

\* _add_slide_with_elements is called for the image and fails at one of
\* its steps: segment_image raises, the background picture cannot be
\* added, an element cannot be mapped.
FailsInside(image) ==
    /\ image.kind \in {"png", "webp"}
    /\ \/ image.seg.raises
       \/ image.kind = "webp"
       \/ \E n \in 1..Len(image.seg.elements_info.text_elements) :
              Unmappable(image.seg.elements_info.text_elements[n])

\* C17: whenever segmentation, normalization or mapping fails for one
\* image, at whatever step of _add_slide_with_elements, the slide of that
\* image ends up with exactly one shape, the source image as a full-slide
\* picture at left 0, top 0 with the slide's width and height.
C17_FailedSlideIsOnePicture ==
    use_segmentation =>
        \A j \in 1..batch_i :
            FailsInside(image_paths[j]) =>
                /\ batch_pc # "aborted"
                /\ slides[SlideOf(j)] = <<FullSlidePicture>>

\* C18: for any sequence of image paths and any pattern of per-image
\* failures the batch is never aborted: it runs to the end and the
\* document has one slide per existing image, in input order; a slide
\* whose segmentation failed is the flat background picture and a slide
\* whose segmentation succeeded keeps its elements.
C18_BatchNeverAborts ==
    /\ batch_pc # "aborted"
    /\ batch_pc = "saved" =>
          /\ Len(slides) = SlideOf(Len(image_paths))
          /\ \A j \in 1..Len(image_paths) :
                LET image == image_paths[j]
                IN  image.kind # "missing" =>
                      IF use_segmentation /\ ~image.seg.raises
                      THEN /\ slides[SlideOf(j)][1] = FullSlidePicture
                           /\ \E k \in 2..Len(slides[SlideOf(j)]) :
                                  slides[SlideOf(j)][k].shape = "textbox"
                      ELSE slides[SlideOf(j)] = <<FullSlidePicture>>


\* ====================================================== claims on the parser

\* Some stretch of chars from a "{" to a later "}" parses as JSON.
SomeSpanParses(chars) ==
    \E i \in Places(chars, "{") : \E j \in Places(chars, "}") :
        i < j /\ JsonLoads(SubSeq(chars, i, j)).ok

\* The response is empty, or what is left of it after the fences are taken
\* out neither parses nor holds a span that parses.
Unparseable ==
    \/ response_text = <<>>
    \/ ~JsonLoads(cleaned).ok /\ ~SomeSpanParses(cleaned)

\* The first characters of cleaned, PreviewLength of them at most.
FirstCharacters ==
    [n \in 1..(IF Len(cleaned) < PreviewLength THEN Len(cleaned) ELSE PreviewLength)
        |-> cleaned[n]]

\* C20: when the response text is empty or, after fence stripping, neither
\* parses directly as JSON nor contains a {...} span that parses, the parser
\* fails with a ValueError whose message carries exactly the first 200
\* characters of the cleaned text, and returns no value.
C20_UnparseableRaisesWithPreview ==
    (parse_pc # "start" /\ Unparseable) =>
        /\ parse_pc = "raised"
        /\ parse_result = NoValue
        /\ parse_error = <<"Failed to parse JSON from response: ">> \o FirstCharacters

\* A response with braces around prose longer than the preview was refused.
C20_Witness ==
    /\ parse_pc = "raised"
    /\ Unparseable
    /\ HasBraces(cleaned)
    /\ Len(cleaned) > PreviewLength


\* C21: for every response text, the parser either returns a JSON object (a
\* mapping) or fails with ValueError; it never returns a JSON array, string,
\* number, boolean or null as its result.
C21_ReturnsObjectOrRaises ==
    /\ parse_pc = "returned" => parse_result.ty = "dict"
    /\ parse_pc = "raised" => parse_result = NoValue


\* ====================================================== claims on the service

\* The answer is a text, not empty, that holds no JSON object the parser
\* could recover: what is left after the fences neither is an object nor
\* holds a span that parses.
NoRecoverableObject ==
    /\ vision.kind = "text"
    /\ vision.text # <<>>
    /\ LET c == Cleaned(vision.text)
       IN  /\ ~(JsonLoads(c).ok /\ JsonLoads(c).value.ty = "dict")
           /\ ~SomeSpanParses(c)

\* The slide is the unsegmented whole image.
WholeImageSlide == shapes = <<FullSlidePicture>>

\* C22: when the classification service returns a non-empty response that
\* contains no recoverable JSON object, segment_image fails with the
\* ValueError of the parser, propagated to the caller, and the caller then
\* places that slide as an unsegmented whole image.
C22_ParseErrorReachesCallerThenWholeImage ==
    (calls = 1 /\ svc_pc \in {"raised", "placed"} /\ NoRecoverableObject) =>
        /\ svc_error.type = "ValueError"
        /\ svc_pc = "placed" => WholeImageSlide

\* The part of C22 on the caller alone.
C22_WholeImageAfterParseFailure ==
    (svc_pc = "placed" /\ NoRecoverableObject) => WholeImageSlide


\* The call errored or its answer is the empty text, and the error the
\* service then has at hand: the one of the call, or its own ValueError.
CallFailed == vision.kind = "error" \/ vision.text = <<>>
OriginalError ==
    IF vision.kind = "error" THEN [type |-> vision.type, message |-> vision.message]
    ELSE [type |-> "ValueError", message |-> <<"Vision API returned empty response">>]

\* The message names the type of the original error and ends with its
\* message.
Wraps(message, original) ==
    /\ \E k \in 1..Len(message) : message[k] = original.type
    /\ Len(message) > Len(original.message)
    /\ SubSeq(message, Len(message) - Len(original.message) + 1, Len(message))
           = original.message

\* C23: for each image the external classification service is called at
\* most once: if that call errors or returns empty text, segment_image
\* fails immediately with an error wrapping the original error type and
\* message, no second call is made for that image, and no normalization is
\* run on it.
C23_OneCallFailureWrappedNoRetry ==
    /\ calls <= 1
    /\ (calls = 1 /\ CallFailed /\ svc_pc # "answered") =>
           /\ svc_pc \in {"raised", "placed"}
           /\ svc_error.type = "Exception"
           /\ Wraps(svc_error.message, OriginalError)
           /\ ~normalized

\* The call errored and segment_image has raised.
C23_Witness ==
    /\ svc_pc = "raised"
    /\ calls = 1
    /\ vision.kind = "error"
    /\ ~normalized


\* C24: when the required credential (GOOGLE_API_KEY) is absent,
\* constructing ElementSegmentationService fails immediately with a
\* ValueError before any client is created and before any per-image work
\* begins; in create_pptx_with_segmented_elements the construction happens
\* before the first image is processed.
C24_NoGoogleKeyNoService ==
    /\ (svc_pc # "new" /\ provider_config.google_key = NoKey) =>
           /\ client = NoKey
           /\ svc_error.type = "ValueError"
           /\ calls = 0
    /\ svc_pc = "new" => calls = 0 /\ shapes = <<>>


\* The background label of the image.
BackgroundLabel ==
    DetectBackgroundType(image_stats.color_variance, image_stats.local_variance)

\* C27: the background label of an image selects which instruction prompt
\* is sent to the external classification service: for an image classified
\* textured or complex the stricter complex-background prompt is sent, and
\* for simple or gradient the default prompt is sent.
C27_LabelSelectsPrompt ==
    calls >= 1 =>
        /\ BackgroundLabel \in {"textured", "complex"} =>
               prompt = ComplexBackgroundPrompt
        /\ BackgroundLabel \in {"simple", "gradient"} => prompt = DefaultPrompt

\* The part of C27 on simple and gradient images.
C27_DefaultPromptForPlainImages ==
    (calls >= 1 /\ BackgroundLabel \in {"simple", "gradient"}) =>
        prompt = DefaultPrompt


\* ====================================================== the order of shapes

\* The layer of a shape: 0 for a picture of the whole image, 1 for a text
\* box, 2 for the picture of an icon, 3 for the picture of a chart.
IdsOf(category) ==
    {seg_out.elements_info[category][j].id :
         j \in 1..Len(seg_out.elements_info[category])}
Layer(shape) ==
    IF shape.shape = "textbox" THEN 1
    ELSE IF "id" \notin DOMAIN shape THEN 0
    ELSE IF shape.id \in IdsOf("icons") THEN 2
    ELSE 3

\* C25: on every slide built with segmentation, shapes are added in this
\* order: first the full-bleed background picture of the source image, then
\* all text boxes, then all icon pictures, then all chart pictures; no text
\* box precedes the background and no icon or chart picture precedes a text
\* box.
C25_ShapesInLayerOrder ==
    /\ shapes # <<>> => shapes[1] = FullSlidePicture
    /\ \A k \in 2..Len(shapes) : Layer(shapes[k]) >= 1
    /\ \A k \in 1..Len(shapes) : \A l \in 1..Len(shapes) :
           k < l => Layer(shapes[k]) <= Layer(shapes[l])

\* A finished slide with a text box, an icon and a chart.
C25_Witness ==
    /\ slide_pc = "done"
    /\ \A n \in 0..3 : \E k \in 1..Len(shapes) : Layer(shapes[k]) = n


\* ================================================= one image among others

\* The slide a readable PNG gets when it is the only image of the batch.
AloneSlide(image) ==
    LET r == AddSlideWithElements(image.kind, image.size, image.seg, fp_under)
    IN  IF use_segmentation /\ ~r.raised THEN r.shapes ELSE <<FullSlidePicture>>

\* C26: processing is stateless across images: the shapes placed on the
\* slide of image i depend only on image i and on the classification
\* response for image i; the outcome (success, failure or content) of any
\* other image in the same batch does not change slide i, and processing the
\* same images in a different order yields the same per-image slide
\* contents.
C26_SlideDependsOnItsImageOnly ==
    batch_pc \in {"saved", "aborted"} =>
        \A j \in 1..Len(image_paths) :
            image_paths[j].kind = "png" =>
                /\ SlideOf(j) <= Len(slides)
                /\ slides[SlideOf(j)] = AloneSlide(image_paths[j])

\* The same, for batches in which every file is a PNG or is missing.
C26_AmongReadableImages ==
    (/\ batch_pc \in {"saved", "aborted"}
     /\ \A j \in 1..Len(image_paths) : image_paths[j].kind \in {"png", "missing"}) =>
        \A j \in 1..Len(image_paths) :
            image_paths[j].kind = "png" =>
                /\ SlideOf(j) <= Len(slides)
                /\ slides[SlideOf(j)] = AloneSlide(image_paths[j])


\* ================================================= clamping as intersection

\* The part of the stretch from a, of length l, that lies in [0, bound].
Cropped(a, l, bound) ==
    LET lo == IF a < 0 THEN 0 ELSE a
        hi == IF a + l > bound THEN bound ELSE a + l
    IN  [from |-> lo, length |-> hi - lo]

\* The rectangle of bb_in cut to the image, on the grid.
CropX == Cropped(bb_in.items[1].v, bb_in.items[3].v, px(image_size[1]))
CropY == Cropped(bb_in.items[2].v, bb_in.items[4].v, px(image_size[2]))

\* C28: for every bbox accepted by validation, the clamped bbox is the
\* intersection of the original rectangle with the image rectangle
\* [0, W] x [0, H] whenever that intersection has width and height of at
\* least 1: clamping crops the box and never moves its right or bottom edge
\* outward (x = -10, w = 15 must clamp to x = 0, w = 5).
C28_ClampIsIntersection ==
    (/\ bb_valid = "True"
     /\ bb_clamps = 1
     /\ FourNumbers(bb_in)
     /\ CropX.length >= px(1)
     /\ CropY.length >= px(1)) =>
        bb_cur = List(<<Num(CropX.from), Num(CropY.from),
                        Num(CropX.length), Num(CropY.length)>>)

\* The same for a bbox that starts inside the image: only its right and
\* bottom edge are cut.
C28_IntersectionWhenOriginInside ==
    (/\ bb_valid = "True"
     /\ bb_clamps = 1
     /\ FourNumbers(bb_in)
     /\ bb_in.items[1].v >= 0
     /\ bb_in.items[2].v >= 0
     /\ CropX.length >= px(1)
     /\ CropY.length >= px(1)) =>
        bb_cur = List(<<Num(CropX.from), Num(CropY.from),
                        Num(CropX.length), Num(CropY.length)>>)


\* ============================================ the normaliser on its output

\* C29: the normalizer is idempotent: applying
\* ResultProcessor.validate_and_clean_elements to its own output yields the
\* same output (same elements, same bboxes, same order in each category).
C29_NormalizerIdempotent ==
    rp_pass = 2 =>
        /\ rp_pc # "raised"
        /\ rp_pc = "returned" => returned = first_returned

\* The second application returned; the first had clamped a bbox, dropped
\* an element and put two others in another order than the detector's.
C29_Witness ==
    /\ rp_pass = 2
    /\ rp_pc = "returned"
    /\ Len(returned.text_elements) >= 2
    /\ Len(returned.text_elements) < Len(response.text_elements)
    /\ returned.text_elements[1].id > returned.text_elements[2].id
    /\ \E k \in 1..Len(returned.text_elements) :
           returned.text_elements[k].bbox
               # response.text_elements[returned.text_elements[k].id].bbox


\* ============================================== what deduplication removes

\* The element at place i of the filtered list of c is in the returned list.
KeptIn(c, i) == filtered[c][i].id \in Ids(returned[c])

\* Two elements with the same four bbox values.
SameBox(e, f) == e.bbox = f.bbox

\* C30: every element removed by _deduplicate_elements has IoU greater than
\* 0.7 with some element of the same category that is kept in the output
\* and whose area is greater than or equal to its own; a largest-area
\* element of each non-empty category is always kept and, among equal-area
\* identical boxes, the first in input order is the one kept.
C30_RemovedHasKeptWitness ==
    rp_pc = "returned" =>
        \A c \in Categories :
            /\ \A i \in 1..Len(filtered[c]) :
                   ~KeptIn(c, i) =>
                       \E k \in 1..Len(returned[c]) :
                           /\ OverSeventy(filtered[c][i], returned[c][k])
                           /\ ElemArea(returned[c][k]) >= ElemArea(filtered[c][i])
            /\ filtered[c] # <<>> =>
                   \E k \in 1..Len(returned[c]) :
                       \A i \in 1..Len(filtered[c]) :
                           ElemArea(returned[c][k]) >= ElemArea(filtered[c][i])
            /\ \A i, j \in 1..Len(filtered[c]) :
                   (i < j /\ SameBox(filtered[c][i], filtered[c][j])) => ~KeptIn(c, j)

\* The second copy of a box was removed and the first copy kept, and
\* another element of the category was kept beside it.
C30_Witness ==
    /\ rp_pc = "returned"
    /\ \E c \in Categories : \E i, j, m \in 1..Len(filtered[c]) :
         /\ i < j
         /\ SameBox(filtered[c][i], filtered[c][j])
         /\ KeptIn(c, i)
         /\ ~KeptIn(c, j)
         /\ m # i
         /\ KeptIn(c, m)

====
